---- MODULE Spec2Model ----
(***************************************************************************)
(* Model of python-haystack's memory mappings (haystack/mappings/base.py), *)
(* its reference book and the Win7 heap walker                             *)
(* (haystack/reverse/win32/win7heapwalker.py).                             *)
(*                                                                         *)
(* Three specifications share the module, one per component:               *)
(*   SpecMappings : Mappings as a list of MemoryMapping (address lookup)   *)
(*   SpecBook     : Mappings' reference book (_book)                       *)
(*   SpecWalker   : Win7HeapWalker.getUserAllocations                      *)
(* Every call is one action; the call and what it returned (or raised) are *)
(* recorded in the component's *_call / *_ret variables.                   *)
(***************************************************************************)
EXTENDS Integers, Sequences, FiniteSets, TLC

VARIABLES
    mappings,     \* Mappings.mappings: list of MemoryMapping [start, end]
    as_call,      \* last call made on the Mappings / a MemoryMapping
    as_ret,       \* what that call returned
    refs,         \* Mappings.__book.refs: dict (typ, addr) -> obj
    book_call,    \* last call made on the reference book
    book_ret,     \* what that call returned
    hw_vblocks,   \* heap: blocks of the VirtualAllocdBlocks list
    hw_chunks,    \* heap: (addr, size) of HEAP.getChunks
    hw_fth,       \* heap: (addr, size) of HEAP.getFrontendChunks
    hw_broken,    \* heap: the sources whose list pointers do not resolve
    hw_loads,     \* heap: whether HEAP.loadMembers succeeds on the header
    hw_allocs,    \* Win7HeapWalker._allocs (None until computed)
    hw_call,      \* last call made on the walker
    hw_ret,       \* what that call returned or raised
    reg_start,    \* a MemoryMapping with content: its start address
    reg_bytes,    \* its bytes; its end is reg_start + Len(reg_bytes)
    lm_buffered,  \* LocalMemoryMapping: readBytes is readBufferBytes
    rg_call,      \* the last call made on the region, with its arguments
    rg_ret,       \* what that call returned or raised
    s_needle,     \* search: bytestr
    s_buf_len,    \* search: buf_len
    s_covered,    \* search: covered
    s_remaining,  \* search: remaining
    s_out,        \* search: the addresses yielded so far
    s_pc,         \* search: "idle", "loop" (in the while loop) or "done"
    md,           \* a MemoryDumpMemoryMapping: _memdump, _base, redirected
                  \* readers, and how often its dump file was read
    pm,           \* a ProcessMemoryMapping: config, _local_mmap, _base, and
                  \* how often the process was read
    next_obj,     \* the identity the next LocalMemoryMapping created gets
    bk_call,      \* the last call made on one of the backings
    bk_ret,       \* what that call returned or raised
    proc_bytes,   \* the bytes the live process holds now in the region
    fb,           \* a FileBackedMemoryMapping: _base, the offset it was
                  \* given, and the file handles open in its LazyMmap
    fb_file,      \* the bytes of the dump file of that mapping
    fb_call,      \* the last call made on the FileBackedMemoryMapping
    fb_ret,       \* what that call returned or raised
    fn,           \* a FilenameBackedMemoryMapping: _base, the state of the
                  \* file object in _memdump, and how often it opened its file
    sp_maps,      \* Mappings.mappings as get_mapping, get_heaps and
                  \* init_config use it: pathname and config of each region
    sp,           \* Mappings: __heaps, __heap_finder, __os_name,
                  \* __cpu_bits, config, and how often the heap finder and
                  \* the target detection were used
    sp_call,      \* the last call made on that Mappings
    sp_ret        \* what that call returned or raised

vars == <<mappings, as_call, as_ret, refs, book_call, book_ret,
          hw_vblocks, hw_chunks, hw_fth, hw_broken, hw_loads,
          hw_allocs, hw_call, hw_ret,
          reg_start, reg_bytes, lm_buffered, rg_call, rg_ret,
          s_needle, s_buf_len, s_covered, s_remaining, s_out, s_pc,
          md, pm, next_obj, bk_call, bk_ret, proc_bytes,
          fb, fb_file, fb_call, fb_ret, fn,
          sp_maps, sp, sp_call, sp_ret>>

asVars == <<mappings, as_call, as_ret>>
bookVars == <<refs, book_call, book_ret>>
hwVars == <<hw_vblocks, hw_chunks, hw_fth, hw_broken, hw_loads,
            hw_allocs, hw_call, hw_ret>>
regVars == <<reg_start, reg_bytes, lm_buffered, rg_call, rg_ret>>
searchVars == <<s_needle, s_buf_len, s_covered, s_remaining, s_out, s_pc>>
backingVars == <<md, pm, next_obj, bk_call, bk_ret, proc_bytes>>
lazyVars == <<fb, fb_file, fb_call, fb_ret, fn>>
spaceVars == <<sp_maps, sp, sp_call, sp_ret>>

(***************************************************************************)
(* Bounds                                                                  *)
(***************************************************************************)
MaxAddr == 3        \* region bounds are drawn from 0..MaxAddr
MaxMaps == 2        \* at most this many regions are appended
MaxSize == 1        \* ctypes.sizeof(structType) is drawn from 0..MaxSize
MaxBookAddr == 2    \* the book is used with addresses 1..MaxBookAddr
MaxObj == 2         \* instances kept in the book are 1..MaxObj
MaxRefs == 3        \* the book holds at most this many entries
MaxHeapAddr == 2    \* chunk and block addresses are 1..MaxHeapAddr
MaxSrcLen == 2      \* each chunk source lists at most this many chunks
MaxVBlocks == 1     \* the virtual allocation list has at most this many blocks
MaxBase == 1        \* a region with content starts at an address in 0..MaxBase
MaxMem == 9         \* a region with content has 1..MaxMem bytes
MaxNeedle == 3      \* search is called with needles of 0..MaxNeedle bytes
\* the scan window of search: 64 * 1024 in the source, scaled down so that
\* regions are larger than a window and needles can be larger than it
BufLen == 2
MaxLen == 4         \* a region that is read has 1..MaxLen bytes
MaxChunk == 3       \* reads ask for 0..MaxChunk bytes; chunk_length is 1..MaxChunk
MaxStr == 3         \* readCString is called with max_size in 0..MaxStr
MaxPromote == 2     \* at most this many LocalMemoryMapping objects are created
MaxProcReads == 3   \* the process is read at most this many times
\* the number of entries above which the book warns: 35000 in the source,
\* scaled down so that the book gets fuller than that
SoftCapacity == 1
MaxOpens == 2       \* a region opens its dump file at most this many times
MaxOffset == 1      \* the region of a dump file starts at offset 0..MaxOffset

Addresses == 0..MaxAddr
QueryAddresses == (0 - 1)..(MaxAddr + 1)

(***************************************************************************)
(* Python values returned by the calls                                     *)
(***************************************************************************)
PyNone == [kind |-> "None", val |-> 0]
PyBool(b) == [kind |-> "bool", val |-> b]
PyFalse == PyBool(FALSE)
PyTrue == PyBool(TRUE)
\* a MemoryMapping object of the Mappings, identified by its position
PyRegion(i) == [kind |-> "region", val |-> i]
PyRaise(exc) == [kind |-> "raise", val |-> exc]
PyObj(o) == [kind |-> "obj", val |-> o]
PyList(s) == [kind |-> "list", val |-> s]

IsRegion(r) == r.kind = "region"
IsRaise(r) == r.kind = "raise"

(***************************************************************************)
(* MemoryMapping                                                           *)
(***************************************************************************)
MemoryMapping(start, end) == [start |-> start, end |-> end]

Regions == {MemoryMapping(s, e) : s \in Addresses, e \in Addresses}

\* the Region data model: start < end
ValidRegions == {m \in Regions : m.start < m.end}

\* variant: the end address counted in
MemoryMapping_contains_closed(m, address) ==
    m.start <= address /\ address <= m.end

\* MemoryMapping.__contains__
MemoryMapping_contains(m, address) == m.start <= address /\ address < m.end

\* MemoryMapping.__len__
MemoryMapping_len(m) == m.end - m.start

\* truth value of a returned object: a MemoryMapping has __len__ and no
\* __nonzero__, so it is true iff its length is not 0; False is false
Truthy(maps, r) ==
    IF IsRegion(r) THEN MemoryMapping_len(maps[r.val]) # 0
    ELSE IF r.kind = "bool" THEN r.val
    ELSE FALSE

(***************************************************************************)
(* Mappings: address lookup                                                *)
(***************************************************************************)
RECURSIVE scan_mappings(_, _, _)
scan_mappings(maps, vaddr, i) ==
    IF i > Len(maps) THEN PyFalse
    ELSE IF MemoryMapping_contains(maps[i], vaddr) THEN PyRegion(i)
    ELSE scan_mappings(maps, vaddr, i + 1)

\* variant: the scan does not stop at the first region found
RECURSIVE scan_mappings_last(_, _, _)
scan_mappings_last(maps, vaddr, i) ==
    IF i < 1 THEN PyFalse
    ELSE IF MemoryMapping_contains(maps[i], vaddr) THEN PyRegion(i)
    ELSE scan_mappings_last(maps, vaddr, i - 1)

get_mapping_for_address_last(maps, vaddr) ==
    scan_mappings_last(maps, vaddr, Len(maps))

\* Mappings.get_mapping_for_address
get_mapping_for_address(maps, vaddr) == scan_mappings(maps, vaddr, 1)

RECURSIVE scan_contains(_, _, _)
scan_contains(maps, vaddr, i) ==
    IF i > Len(maps) THEN FALSE
    ELSE IF MemoryMapping_contains(maps[i], vaddr) THEN TRUE
    ELSE scan_contains(maps, vaddr, i + 1)

\* variant: only the first region is asked
Mappings_contains_first(maps, vaddr) ==
    Len(maps) >= 1 /\ MemoryMapping_contains(maps[1], vaddr)

\* Mappings.__contains__
Mappings_contains(maps, vaddr) == scan_contains(maps, vaddr, 1)

\* structType argument: None, or a ctypes type of a given sizeof
NoStructType == [none |-> TRUE, sizeof |-> 0]
StructType(s) == [none |-> FALSE, sizeof |-> s]
StructTypes == {NoStructType} \cup {StructType(s) : s \in 0..MaxSize}

\* variant: a structure ending at the region's end is refused
is_valid_address_value_strict(maps, addr, structType) ==
    LET m == get_mapping_for_address(maps, addr) IN
    IF Truthy(maps, m)
    THEN IF ~structType.none
            /\ LET s == structType.sizeof IN
               \/ (addr + s) < maps[m.val].start
               \/ (addr + s) >= maps[m.val].end
         THEN PyFalse
         ELSE m
    ELSE PyFalse

\* Mappings.is_valid_address_value
is_valid_address_value(maps, addr, structType) ==
    LET m == get_mapping_for_address(maps, addr) IN
    IF Truthy(maps, m)
    THEN IF ~structType.none
            /\ LET s == structType.sizeof IN
               \/ (addr + s) < maps[m.val].start
               \/ (addr + s) > maps[m.val].end
         THEN PyFalse
         ELSE m
    ELSE PyFalse

\* the obj argument of is_valid_address: a plain integer, a haystack pointer
\* carrying _sub_addr_, or a false object (None, NULL ctypes pointer)
PyInt(v) == [kind |-> "int", val |-> v]
PySubAddr(v) == [kind |-> "sub_addr", val |-> v]
PyNullObj == [kind |-> "null", val |-> 0]
PointerObjs ==
    {PyInt(v) : v \in QueryAddresses} \cup {PySubAddr(v) : v \in Addresses}
        \cup {PyNullObj}

\* utils.get_pointee_address
get_pointee_address(obj) ==
    IF obj.kind = "sub_addr" THEN obj.val
    ELSE IF obj.kind = "int" THEN obj.val
    ELSE 0

\* Mappings.is_valid_address
is_valid_address(maps, obj, structType) ==
    LET addr == get_pointee_address(obj) IN
    IF addr = 0 THEN PyFalse
    ELSE is_valid_address_value(maps, addr, structType)

(***************************************************************************)
(* Mappings: actions                                                       *)
(***************************************************************************)
\* Mappings.append(m)
Append_mapping(m) ==
    /\ Len(mappings) < MaxMaps
    /\ mappings' = Append(mappings, m)
    /\ as_call' = [op |-> "append", region |-> m]
    /\ as_ret' = PyNone
    /\ UNCHANGED <<bookVars, hwVars, regVars, searchVars, backingVars, lazyVars, spaceVars>>

\* address in mappings[i]
Call_region_contains(i, a) ==
    /\ as_call' = [op |-> "region_contains", region |-> i, addr |-> a]
    /\ as_ret' = PyBool(MemoryMapping_contains(mappings[i], a))
    /\ UNCHANGED mappings
    /\ UNCHANGED <<bookVars, hwVars, regVars, searchVars, backingVars, lazyVars, spaceVars>>

\* address in mappings
Call_mappings_contains(a) ==
    /\ as_call' = [op |-> "mappings_contains", addr |-> a]
    /\ as_ret' = PyBool(Mappings_contains(mappings, a))
    /\ UNCHANGED mappings
    /\ UNCHANGED <<bookVars, hwVars, regVars, searchVars, backingVars, lazyVars, spaceVars>>

Call_get_mapping_for_address(a) ==
    /\ as_call' = [op |-> "get_mapping_for_address", addr |-> a]
    /\ as_ret' = get_mapping_for_address(mappings, a)
    /\ UNCHANGED mappings
    /\ UNCHANGED <<bookVars, hwVars, regVars, searchVars, backingVars, lazyVars, spaceVars>>

Call_is_valid_address_value(a, t) ==
    /\ as_call' = [op |-> "is_valid_address_value", addr |-> a, structType |-> t]
    /\ as_ret' = is_valid_address_value(mappings, a, t)
    /\ UNCHANGED mappings
    /\ UNCHANGED <<bookVars, hwVars, regVars, searchVars, backingVars, lazyVars, spaceVars>>

Call_is_valid_address(obj, t) ==
    /\ as_call' = [op |-> "is_valid_address", obj |-> obj,
                   addr |-> get_pointee_address(obj), structType |-> t]
    /\ as_ret' = is_valid_address(mappings, obj, t)
    /\ UNCHANGED mappings
    /\ UNCHANGED <<bookVars, hwVars, regVars, searchVars, backingVars, lazyVars, spaceVars>>

InitMappingsVars ==
    /\ mappings = <<>>
    /\ as_call = [op |-> "init"]
    /\ as_ret = PyNone

NextMappings ==
    \/ \E m \in ValidRegions : Append_mapping(m)
    \/ \E i \in 1..Len(mappings), a \in QueryAddresses :
           Call_region_contains(i, a)
    \/ \E a \in QueryAddresses : Call_mappings_contains(a)
    \/ \E a \in QueryAddresses : Call_get_mapping_for_address(a)
    \/ \E a \in QueryAddresses, t \in StructTypes :
           Call_is_valid_address_value(a, t)
    \/ \E obj \in PointerObjs, t \in StructTypes :
           Call_is_valid_address(obj, t)

(***************************************************************************)
(* The reference book: _book and its Mappings front                        *)
(***************************************************************************)
Types == {"int", "str"}
BookAddrs == 1..MaxBookAddr
Objs == 1..MaxObj
Keys == Types \X BookAddrs

\* _book.__init__: refs = dict()
EmptyDict == [k \in {} |-> 0]

\* variant: a book that is over its capacity forgets what it holds
book_addRef_evict(r, obj, typ, addr) ==
    [k \in (IF Cardinality(DOMAIN r) > SoftCapacity THEN {} ELSE DOMAIN r)
               \cup {<<typ, addr>>} |->
        IF k = <<typ, addr>> THEN obj ELSE r[k]]

\* _book.addRef: refs[(typ, addr)] = obj
book_addRef(r, obj, typ, addr) ==
    [k \in (DOMAIN r) \cup {<<typ, addr>>} |->
        IF k = <<typ, addr>> THEN obj ELSE r[k]]

\* _book.getRef: refs[(typ, addr)], KeyError when absent
book_getRef(r, typ, addr) ==
    IF <<typ, addr>> \in DOMAIN r THEN PyObj(r[<<typ, addr>>])
    ELSE PyRaise("KeyError")

\* _book.delRef: del refs[(typ, addr)], KeyError when absent
book_delRef(r, typ, addr) ==
    IF <<typ, addr>> \in DOMAIN r
    THEN [refs |-> [k \in (DOMAIN r) \ {<<typ, addr>>} |-> r[k]],
          ret |-> PyNone]
    ELSE [refs |-> r, ret |-> PyRaise("KeyError")]

\* variant: the last writer wins
keepRef_overwrite(r, obj, typ, origAddr) ==
    [refs |-> book_addRef(r, obj, typ, origAddr), ret |-> PyNone]

\* Mappings.keepRef
keepRef(r, obj, typ, origAddr) ==
    IF <<typ, origAddr>> \in DOMAIN r
    THEN [refs |-> r, ret |-> PyNone]
    ELSE [refs |-> book_addRef(r, obj, typ, origAddr), ret |-> PyNone]

\* variant: no test that the key is present
delRef_unguarded(r, typ, origAddr) == book_delRef(r, typ, origAddr)

\* Mappings.delRef
delRef(r, typ, origAddr) ==
    IF <<typ, origAddr>> \in DOMAIN r
    THEN [refs |-> book_delRef(r, typ, origAddr).refs, ret |-> PyNone]
    ELSE [refs |-> r, ret |-> PyNone]

\* _book.getRef: log.warning('the book is full, ...') is called
book_getRef_warns(r) == Cardinality(DOMAIN r) > SoftCapacity

\* Mappings.getRef: the book's getRef is called and warns
getRef_warns(r, typ, origAddr) ==
    <<typ, origAddr>> \in DOMAIN r /\ book_getRef_warns(r)

\* Mappings.hasRef
hasRef(r, typ, origAddr) == PyBool(<<typ, origAddr>> \in DOMAIN r)

\* Mappings.getRef
getRef(r, typ, origAddr) ==
    IF <<typ, origAddr>> \in DOMAIN r THEN book_getRef(r, typ, origAddr)
    ELSE PyNone

\* the orders in which a dict may iterate over its keys
RECURSIVE KeyOrders(_)
KeyOrders(S) ==
    IF S = {} THEN {<<>>}
    ELSE UNION {{<<k>> \o rest : rest \in KeyOrders(S \ {k})} : k \in S}

RECURSIVE scan_refs(_, _, _, _)
scan_refs(r, order, addr, i) ==
    IF i > Len(order) THEN <<>>
    ELSE IF order[i][2] = addr
         THEN <<(<<order[i][1], order[i][2], r[order[i]]>>)>>
                  \o scan_refs(r, order, addr, i + 1)
         ELSE scan_refs(r, order, addr, i + 1)

\* variant: the address of the key is not compared
RECURSIVE scan_refs_all(_, _, _)
scan_refs_all(r, order, i) ==
    IF i > Len(order) THEN <<>>
    ELSE <<(<<order[i][1], order[i][2], r[order[i]]>>)>>
             \o scan_refs_all(r, order, i + 1)

getRefByAddr_all(r, order, addr) == PyList(scan_refs_all(r, order, 1))

\* Mappings.getRefByAddr, order being the iteration order of refs.keys()
getRefByAddr(r, order, addr) == PyList(scan_refs(r, order, addr, 1))

\* variant: the book is left as it is
reset_noop(r) == r

\* Mappings.reset: refs = dict()
reset(r) == EmptyDict

Call_keepRef(obj, typ, addr) ==
    /\ \/ <<typ, addr>> \in DOMAIN refs
       \/ Cardinality(DOMAIN refs) < MaxRefs
    /\ book_call' = [op |-> "keepRef", obj |-> obj, typ |-> typ, addr |-> addr]
    /\ refs' = keepRef(refs, obj, typ, addr).refs
    /\ book_ret' = keepRef(refs, obj, typ, addr).ret
    /\ UNCHANGED <<asVars, hwVars, regVars, searchVars, backingVars, lazyVars, spaceVars>>

Call_delRef(typ, addr) ==
    /\ book_call' = [op |-> "delRef", typ |-> typ, addr |-> addr]
    /\ refs' = delRef(refs, typ, addr).refs
    /\ book_ret' = delRef(refs, typ, addr).ret
    /\ UNCHANGED <<asVars, hwVars, regVars, searchVars, backingVars, lazyVars, spaceVars>>

Call_hasRef(typ, addr) ==
    /\ book_call' = [op |-> "hasRef", typ |-> typ, addr |-> addr]
    /\ book_ret' = hasRef(refs, typ, addr)
    /\ UNCHANGED refs
    /\ UNCHANGED <<asVars, hwVars, regVars, searchVars, backingVars, lazyVars, spaceVars>>

Call_getRef(typ, addr) ==
    /\ book_call' = [op |-> "getRef", typ |-> typ, addr |-> addr,
                     warned |-> getRef_warns(refs, typ, addr)]
    /\ book_ret' = getRef(refs, typ, addr)
    /\ UNCHANGED refs
    /\ UNCHANGED <<asVars, hwVars, regVars, searchVars, backingVars, lazyVars, spaceVars>>

Call_getRefByAddr(addr) ==
    /\ book_call' = [op |-> "getRefByAddr", addr |-> addr]
    /\ \E order \in KeyOrders(DOMAIN refs) :
           book_ret' = getRefByAddr(refs, order, addr)
    /\ UNCHANGED refs
    /\ UNCHANGED <<asVars, hwVars, regVars, searchVars, backingVars, lazyVars, spaceVars>>

Call_reset ==
    /\ book_call' = [op |-> "reset", dropped |-> Cardinality(DOMAIN refs)]
    /\ refs' = reset(refs)
    /\ book_ret' = PyNone
    /\ UNCHANGED <<asVars, hwVars, regVars, searchVars, backingVars, lazyVars, spaceVars>>

InitBookVars ==
    /\ refs = EmptyDict
    /\ book_call = [op |-> "init"]
    /\ book_ret = PyNone

NextBook ==
    \/ \E obj \in Objs, typ \in Types, addr \in BookAddrs :
           Call_keepRef(obj, typ, addr)
    \/ \E typ \in Types, addr \in BookAddrs : Call_delRef(typ, addr)
    \/ \E typ \in Types, addr \in BookAddrs : Call_hasRef(typ, addr)
    \/ \E typ \in Types, addr \in BookAddrs : Call_getRef(typ, addr)
    \/ \E addr \in BookAddrs : Call_getRefByAddr(addr)
    \/ Call_reset

(***************************************************************************)
(* Win7HeapWalker                                                          *)
(***************************************************************************)
HeapAddrs == 1..MaxHeapAddr
ChunkSizes == {64}
\* an allocation record (address, size)
Chunks == HeapAddrs \X ChunkSizes
\* a block of the heap's VirtualAllocdBlocks list
VBlocks == {[addr |-> a, CommitSize |-> 64, ReserveSize |-> 128] : a \in HeapAddrs}

SeqsUpTo(S, n) == UNION {[1..k -> S] : k \in 0..n}

Range(s) == {s[i] : i \in DOMAIN s}

\* (address, size) tuples compare lexicographically
TupleLess(a, b) == a[1] < b[1] \/ (a[1] = b[1] /\ a[2] < b[2])

\* sorted(myset)
RECURSIVE sorted(_)
sorted(S) ==
    IF S = {} THEN <<>>
    ELSE LET m == CHOOSE x \in S : \A y \in S \ {x} : TupleLess(x, y)
         IN <<m>> \o sorted(S \ {m})

\* the three allocation sources
Sources == {"vallocs", "chunks", "fth"}

\* an attribute that no method has assigned yet
PyUnset == [kind |-> "unset", val |-> 0]

\* HEAP.iterateListField / HEAP.getChunks / HEAP.getFrontendChunks: the
\* items of the source, or an error when its list pointers do not resolve
HEAP_enumerate(items, broken) ==
    IF broken THEN PyRaise("ValueError") ELSE PyList(items)

\* Win7HeapWalker._getVirtualAllocations: the debug line of its loop names
\* ctypes, which the module never imports
getVirtualAllocations(vblocks, broken) ==
    LET allocated == HEAP_enumerate(vblocks, "vallocs" \in broken) IN
    IF IsRaise(allocated) THEN allocated
    ELSE IF Len(allocated.val) > 0 THEN PyRaise("NameError")
    ELSE allocated

\* Win7HeapWalker._getChunks
getChunks(chunks, broken) == HEAP_enumerate(chunks, "chunks" \in broken)

\* Win7HeapWalker._getFrontendChunks
getFrontendChunks(fth, broken) == HEAP_enumerate(fth, "fth" \in broken)

\* variant: a source that fails is left out of the union
getUserAllocations_partial(allocs, vblocks, chunks, fth, broken) ==
    IF allocs.kind = "None"
    THEN LET part(r) == IF IsRaise(r) THEN <<>> ELSE r.val
             lst == part(getVirtualAllocations(vblocks, broken))
                        \o part(getChunks(chunks, broken))
                        \o part(getFrontendChunks(fth, broken))
             myset == {lst[i] : i \in DOMAIN lst}
         IN [allocs |-> PyList(sorted(myset)), ret |-> PyList(sorted(myset)),
             walked |-> Sources]
    ELSE [allocs |-> allocs, ret |-> allocs, walked |-> {}]

\* variant: _allocs is not looked at, every call walks the heap
getUserAllocations_nomemo(allocs, vblocks, chunks, fth, broken) ==
    LET vallocs == getVirtualAllocations(vblocks, broken)
        cks == getChunks(chunks, broken)
        fcks == getFrontendChunks(fth, broken)
    IN IF IsRaise(vallocs) \/ IsRaise(cks) \/ IsRaise(fcks)
       THEN [allocs |-> allocs, ret |-> PyRaise("ValueError"),
             walked |-> Sources]
       ELSE LET lst == vallocs.val \o cks.val \o fcks.val
                myset == {lst[i] : i \in DOMAIN lst}
            IN [allocs |-> PyList(sorted(myset)),
                ret |-> PyList(sorted(myset)), walked |-> Sources]

\* Win7HeapWalker.getUserAllocations: the new _allocs, what is returned or
\* raised, and the sources that were enumerated
getUserAllocations(allocs, vblocks, chunks, fth, broken) ==
    IF allocs.kind = "None"
    THEN LET vallocs == getVirtualAllocations(vblocks, broken)
             cks == getChunks(chunks, broken)
             fcks == getFrontendChunks(fth, broken)
         IN
         IF IsRaise(vallocs)
         THEN [allocs |-> allocs, ret |-> vallocs, walked |-> {"vallocs"}]
         ELSE IF IsRaise(cks)
         THEN [allocs |-> allocs, ret |-> cks,
               walked |-> {"vallocs", "chunks"}]
         ELSE IF IsRaise(fcks)
         THEN [allocs |-> allocs, ret |-> fcks, walked |-> Sources]
         ELSE LET lst == vallocs.val \o cks.val \o fcks.val
                  myset == Range(lst)
              IN IF Len(lst) # Cardinality(myset)
                 \* the warning's arguments lstlen and setlen are undefined
                 THEN [allocs |-> allocs, ret |-> PyRaise("NameError"),
                       walked |-> Sources]
                 ELSE [allocs |-> PyList(sorted(myset)),
                       ret |-> PyList(sorted(myset)), walked |-> Sources]
    ELSE [allocs |-> allocs, ret |-> allocs, walked |-> {}]

\* Win7HeapWalker._initHeap: the new _allocs and what is returned or raised
initHeap(loads) ==
    [allocs |-> PyNone,
     ret |-> IF ~loads THEN PyRaise("TypeError") ELSE PyNone]

Call_initHeap ==
    /\ hw_call' = [op |-> "_initHeap", n |-> 0, walked |-> {}]
    /\ hw_allocs' = initHeap(hw_loads).allocs
    /\ hw_ret' = initHeap(hw_loads).ret
    /\ UNCHANGED <<hw_vblocks, hw_chunks, hw_fth, hw_broken, hw_loads>>
    /\ UNCHANGED <<asVars, bookVars, regVars, searchVars, backingVars, lazyVars, spaceVars>>

\* the walker can be asked for its allocations once _initHeap has run on
\* it, also when _initHeap raised
WalkerUsable(allocs) == allocs.kind # "unset"

Call_getUserAllocations ==
    /\ WalkerUsable(hw_allocs)
    /\ LET r == getUserAllocations(hw_allocs, hw_vblocks, hw_chunks, hw_fth,
                                   hw_broken)
       IN /\ hw_call' = [op |-> "getUserAllocations",
                         n |-> IF hw_call.op = "getUserAllocations"
                               THEN 2 ELSE 1,
                         walked |-> r.walked]
          /\ hw_allocs' = r.allocs
          /\ hw_ret' = r.ret
    /\ UNCHANGED <<hw_vblocks, hw_chunks, hw_fth, hw_broken, hw_loads>>
    /\ UNCHANGED <<asVars, bookVars, regVars, searchVars, backingVars, lazyVars, spaceVars>>

\* a walker on a heap with no allocation at all
InitWalkerIdle ==
    /\ hw_vblocks = <<>>
    /\ hw_chunks = <<>>
    /\ hw_fth = <<>>
    /\ hw_broken = {}
    /\ hw_loads = TRUE
    /\ hw_allocs = PyUnset
    /\ hw_call = [op |-> "init", n |-> 0, walked |-> {}]
    /\ hw_ret = PyNone

\* a walker on any heap, before _initHeap has run
InitWalkerVars ==
    /\ hw_vblocks \in SeqsUpTo(VBlocks, MaxVBlocks)
    /\ hw_chunks \in SeqsUpTo(Chunks, MaxSrcLen)
    /\ hw_fth \in SeqsUpTo(Chunks, MaxSrcLen)
    /\ hw_broken \in SUBSET Sources
    /\ hw_loads \in BOOLEAN
    /\ hw_allocs = PyUnset
    /\ hw_call = [op |-> "init", n |-> 0, walked |-> {}]
    /\ hw_ret = PyNone

NextWalker ==
    \/ Call_initHeap
    \/ Call_getUserAllocations

(***************************************************************************)
(* A MemoryMapping with content, and MemoryMapping.search                  *)
(***************************************************************************)
\* byte values: 0 is NUL
Bytes == {0, 1}

RegionEnd == reg_start + Len(reg_bytes)

\* readBytes(address, size) of a mapping whose content is held locally: the
\* bytes at address .. address + size - 1
readBytes(start, bytes, address, size) ==
    SubSeq(bytes, address - start + 1, address - start + size)

\* data[i:], i counted from 0
Suffix(data, i) == SubSeq(data, i + 1, Len(data))

\* data.startswith(bytestr)
StartsWith(data, bytestr) ==
    /\ Len(bytestr) <= Len(data)
    /\ SubSeq(data, 1, Len(bytestr)) = bytestr

\* data.find(bytestr): the lowest index, from 0, at which bytestr is in
\* data, -1 when it is not
RECURSIVE find_from(_, _, _)
find_from(data, bytestr, i) ==
    IF i + Len(bytestr) > Len(data) THEN 0 - 1
    ELSE IF StartsWith(Suffix(data, i), bytestr) THEN i
    ELSE find_from(data, bytestr, i + 1)

find(data, bytestr) == find_from(data, bytestr, 0)

\* variant: after a hit the scan resumes one byte after the hit
search_skip_overlap(requested, bytestr_len, offset) ==
    IF offset = 0 - 1 THEN requested - bytestr_len + 1 ELSE offset + 1

\* variant: after a miss the scan resumes at the end of the window
search_skip_window(requested, bytestr_len, offset) ==
    IF offset = 0 - 1 THEN requested ELSE offset + bytestr_len

\* MemoryMapping.search: skip
search_skip(requested, bytestr_len, offset) ==
    IF offset = 0 - 1 THEN requested - bytestr_len + 1
    ELSE offset + bytestr_len

\* variant: a whole window is requested every time
search_requested_window(remaining, buf_len) == buf_len

\* MemoryMapping.search: requested
search_requested(remaining, buf_len) ==
    IF remaining > buf_len THEN buf_len ELSE remaining

\* MemoryMapping.search: buf_len
search_buf_len(bytestr_len) ==
    IF BufLen < bytestr_len THEN bytestr_len ELSE BufLen

\* the generator has never yielded more than this many addresses when the
\* model stops following it
YieldCap == MaxMem + 1

Needles == UNION {[1..k -> Bytes] : k \in 0..MaxNeedle}

\* MemoryMapping.search(bytestr): up to the while loop
Call_search(bytestr) ==
    /\ s_pc = "idle"
    /\ s_needle' = bytestr
    /\ s_buf_len' = search_buf_len(Len(bytestr))
    /\ s_remaining' = RegionEnd - reg_start
    /\ s_covered' = reg_start
    /\ s_out' = <<>>
    /\ s_pc' = "loop"
    /\ UNCHANGED <<asVars, bookVars, hwVars, regVars, backingVars, lazyVars, spaceVars>>

\* MemoryMapping.search: the test of the while loop and one run of its body
Search_iterate ==
    /\ s_pc = "loop"
    /\ Len(s_out) < YieldCap
    /\ IF s_remaining >= Len(s_needle)
       THEN LET requested == search_requested(s_remaining, s_buf_len)
                data == readBytes(reg_start, reg_bytes, s_covered, requested)
                offset == find(data, s_needle)
                skip == search_skip(requested, Len(s_needle), offset)
            IN IF data = <<>>
               THEN /\ s_pc' = "done"
                    /\ UNCHANGED <<s_covered, s_remaining, s_out>>
               ELSE /\ s_out' = IF offset = 0 - 1 THEN s_out
                                ELSE Append(s_out, s_covered + offset)
                    /\ s_covered' = s_covered + skip
                    /\ s_remaining' = s_remaining - skip
                    /\ s_pc' = "loop"
       ELSE /\ s_pc' = "done"
            /\ UNCHANGED <<s_covered, s_remaining, s_out>>
    /\ UNCHANGED <<s_needle, s_buf_len>>
    /\ UNCHANGED <<asVars, bookVars, hwVars, regVars, backingVars, lazyVars, spaceVars>>

\* a fixed small region, for the specifications that do not read content
InitRegionCalls ==
    /\ lm_buffered = FALSE
    /\ rg_call = [op |-> "init"]
    /\ rg_ret = PyNone

InitRegionIdle ==
    /\ reg_start = 0
    /\ reg_bytes = <<0>>
    /\ InitRegionCalls

InitRegionVars ==
    /\ reg_start \in 0..MaxBase
    /\ reg_bytes \in UNION {[1..k -> Bytes] : k \in 1..MaxMem}
    /\ InitRegionCalls

InitSearchVars ==
    /\ s_needle = <<>>
    /\ s_buf_len = 0
    /\ s_covered = 0
    /\ s_remaining = 0
    /\ s_out = <<>>
    /\ s_pc = "idle"

NextSearch ==
    \/ \E bytestr \in Needles : Call_search(bytestr)
    \/ Search_iterate

(***************************************************************************)
(* Reading a region: LocalMemoryMapping, FileBackedMemoryMapping,          *)
(* readCString, vtop and ptov                                              *)
(***************************************************************************)
PyStr(b) == [kind |-> "str", val |-> b]
\* the interpreter dies (a read of memory that is not mapped)
PyCrash == [kind |-> "crash", val |-> 0]

\* one bound of a Python slice of a sequence of n items: a negative index
\* counts from the end, and the index is then cut into 0..n
PySliceIndex(i, n) ==
    LET k == IF i < 0 THEN i + n ELSE i IN
    IF k < 0 THEN 0 ELSE IF k > n THEN n ELSE k

\* data[i:j]
PySlice(data, i, j) ==
    LET lo == PySliceIndex(i, Len(data))
        hi == PySliceIndex(j, Len(data))
    IN IF lo < hi THEN SubSeq(data, lo + 1, hi) ELSE <<>>

\* LocalMemoryMapping._vtop, as an offset from self._address
LocalMemoryMapping_vtop(start, len, vaddr) ==
    LET ret == vaddr - start IN
    IF ret < 0 \/ ret > len THEN PyRaise("ValueError") ELSE PyInt(ret)

\* LocalMemoryMapping.readBytes1: the outcomes of ctypes.string_at(laddr,
\* size). The bytes past the end of the local array are not the region's: the
\* read returns whatever the memory after the array holds, or the
\* interpreter dies
readBytes1(start, bytes, vaddr, size) ==
    LET laddr == LocalMemoryMapping_vtop(start, Len(bytes), vaddr) IN
    IF IsRaise(laddr) THEN {laddr}
    ELSE IF laddr.val + size <= Len(bytes)
    THEN {PyStr(SubSeq(bytes, laddr.val + 1, laddr.val + size))}
    ELSE {PyStr(SubSeq(bytes, laddr.val + 1, Len(bytes)) \o after) :
              after \in [1..(laddr.val + size - Len(bytes)) -> Bytes]}
         \cup {PyCrash}

\* variant: the buffer is sliced at the virtual address
readBufferBytes_untranslated(start, bytes, vaddr, size) ==
    PyStr(PySlice(bytes, vaddr, vaddr + size))

\* LocalMemoryMapping.readBufferBytes
readBufferBytes(start, bytes, vaddr, size) ==
    LET laddr == vaddr - start IN
    PyStr(PySlice(bytes, laddr, laddr + size))

\* FileBackedMemoryMapping._vtop
FileBackedMemoryMapping_vtop(start, len, vaddr) ==
    LET ret == vaddr - start IN
    IF ret < 0 \/ ret > len THEN PyRaise("ValueError") ELSE PyInt(ret)

\* LazyMmap._get: seek to offset, read at most size bytes of the file
LazyMmap_get(filebytes, offset, size) ==
    IF offset >= Len(filebytes) THEN <<>>
    ELSE SubSeq(filebytes, offset + 1,
                IF offset + size > Len(filebytes) THEN Len(filebytes)
                ELSE offset + size)

\* FileBackedMemoryMapping.read_bytes of a region of len bytes, read from a
\* dump file that holds filebytes
FileBackedMemoryMapping_read_bytes(start, len, filebytes, vaddr, size) ==
    LET laddr == FileBackedMemoryMapping_vtop(start, len, vaddr) IN
    IF IsRaise(laddr) THEN laddr
    ELSE PyStr(LazyMmap_get(filebytes, laddr.val, size))

\* the addresses and sizes reads are called with: from one below the lowest
\* start to one above the highest end
ReadAddrs == (0 - 1)..(MaxBase + MaxLen + 1)
ReadSizes == 0..MaxChunk

\* LocalMemoryMapping.getByteBuffer
Call_getByteBuffer ==
    /\ lm_buffered' = TRUE
    /\ rg_call' = [op |-> "getByteBuffer"]
    /\ rg_ret' = IF lm_buffered THEN PyStr(reg_bytes)
                 ELSE CHOOSE r \in readBytes1(reg_start, reg_bytes, reg_start,
                                              Len(reg_bytes)) : TRUE
    /\ UNCHANGED <<reg_start, reg_bytes>>
    /\ UNCHANGED <<asVars, bookVars, hwVars, searchVars, backingVars, lazyVars, spaceVars>>

\* LocalMemoryMapping.readBytes: readBytes1, or readBufferBytes once
\* getByteBuffer has run
Call_readBytes(vaddr, size) ==
    /\ rg_call' = [op |-> "readBytes", vaddr |-> vaddr, size |-> size]
    /\ rg_ret' \in IF lm_buffered
                   THEN {readBufferBytes(reg_start, reg_bytes, vaddr, size)}
                   ELSE readBytes1(reg_start, reg_bytes, vaddr, size)
    /\ UNCHANGED <<reg_start, reg_bytes, lm_buffered>>
    /\ UNCHANGED <<asVars, bookVars, hwVars, searchVars, backingVars, lazyVars, spaceVars>>

\* FileBackedMemoryMapping.read_bytes, the dump file holding the region's
\* bytes and nothing else
Call_read_bytes(vaddr, size) ==
    /\ rg_call' = [op |-> "read_bytes", vaddr |-> vaddr, size |-> size]
    /\ rg_ret' = FileBackedMemoryMapping_read_bytes(
                      reg_start, Len(reg_bytes), reg_bytes, vaddr, size)
    /\ UNCHANGED <<reg_start, reg_bytes, lm_buffered>>
    /\ UNCHANGED <<asVars, bookVars, hwVars, searchVars, backingVars, lazyVars, spaceVars>>

\* data.index('\0'), for data that holds a NUL
RECURSIVE index_nul(_, _)
index_nul(data, i) ==
    IF data[i + 1] = 0 THEN i ELSE index_nul(data, i + 1)

\* variant: the last chunk is appended whole
readCString_cut_whole(data, max_size, size) == data

\* MemoryMapping.readCString: data[:(max_size - size)]
readCString_cut(data, max_size, size) == PySlice(data, 0, max_size - size)

\* MemoryMapping.readCString: the while loop, from one run of its body on.
\* string is the chunks joined so far, reads the (address, size) pairs given
\* to readBytes so far. readBytes is the buffer reader of a LocalMemoryMapping
\* after getByteBuffer
RECURSIVE readCString_loop(_, _, _, _, _, _, _, _)
readCString_loop(start, bytes, address, max_size, chunk_length, size, string, reads) ==
    LET read == readBufferBytes(start, bytes, address, chunk_length).val
        done == 0 \in Range(read)
        data == IF done THEN PySlice(read, 0, index_nul(read, 0)) ELSE read
        asked == Append(reads, <<address, chunk_length>>)
    IN IF max_size <= size + chunk_length
       THEN [string |-> string \o readCString_cut(data, max_size, size),
             truncated |-> TRUE, reads |-> asked]
       ELSE IF done
       THEN [string |-> string \o data, truncated |-> FALSE, reads |-> asked]
       ELSE readCString_loop(start, bytes, address + chunk_length, max_size,
                             chunk_length, size + chunk_length,
                             string \o data, asked)

\* MemoryMapping.readCString
readCString(start, bytes, address, max_size, chunk_length) ==
    readCString_loop(start, bytes, address, max_size, chunk_length,
                     0, <<>>, <<>>)

\* variant: an address outside the region is moved to its nearest bound
vtop_clamped(start, len, vaddr) ==
    LET ret == vaddr - start IN
    PyInt(IF ret < 0 THEN 0 ELSE IF ret > len THEN len ELSE ret)

\* MemoryMapping.vtop
vtop(start, len, vaddr) ==
    LET ret == vaddr - start IN
    IF ret < 0 \/ ret > len THEN PyRaise("ValueError") ELSE PyInt(ret)

\* MemoryMapping.ptov
ptov(start, len, paddr) ==
    LET pstart == vtop(start, len, start) IN
    IF IsRaise(pstart) THEN pstart ELSE PyInt(paddr - pstart.val)

\* MemoryMapping.readCString(address, max_size, chunk_length) on a
\* LocalMemoryMapping that reads from its byte buffer, with address in the
\* region. chunk_length is at least 1: with chunk_length 0 and max_size > 0
\* the loop reads nothing and never ends
Call_readCString(address, max_size, chunk_length) ==
    /\ lm_buffered
    /\ reg_start <= address /\ address < RegionEnd
    /\ LET r == readCString(reg_start, reg_bytes, address, max_size,
                            chunk_length)
       IN /\ rg_call' = [op |-> "readCString", address |-> address,
                         max_size |-> max_size,
                         chunk_length |-> chunk_length, reads |-> r.reads]
          /\ rg_ret' = [kind |-> "cstring",
                        val |-> [string |-> r.string,
                                 truncated |-> r.truncated]]
    /\ UNCHANGED <<reg_start, reg_bytes, lm_buffered>>
    /\ UNCHANGED <<asVars, bookVars, hwVars, searchVars, backingVars, lazyVars, spaceVars>>

\* MemoryMapping.vtop(vaddr)
Call_vtop(vaddr) ==
    /\ rg_call' = [op |-> "vtop", vaddr |-> vaddr]
    /\ rg_ret' = vtop(reg_start, Len(reg_bytes), vaddr)
    /\ UNCHANGED <<reg_start, reg_bytes, lm_buffered>>
    /\ UNCHANGED <<asVars, bookVars, hwVars, searchVars, backingVars, lazyVars, spaceVars>>

\* MemoryMapping.ptov(paddr)
Call_ptov(paddr) ==
    /\ rg_call' = [op |-> "ptov", paddr |-> paddr]
    /\ rg_ret' = ptov(reg_start, Len(reg_bytes), paddr)
    /\ UNCHANGED <<reg_start, reg_bytes, lm_buffered>>
    /\ UNCHANGED <<asVars, bookVars, hwVars, searchVars, backingVars, lazyVars, spaceVars>>

\* the regions that are read
InitReadVars ==
    /\ reg_start \in 0..MaxBase
    /\ reg_bytes \in UNION {[1..k -> Bytes] : k \in 1..MaxLen}
    /\ InitRegionCalls

NextRegion ==
    \/ Call_getByteBuffer
    \/ \E vaddr \in ReadAddrs, size \in ReadSizes : Call_readBytes(vaddr, size)
    \/ \E vaddr \in ReadAddrs, size \in ReadSizes : Call_read_bytes(vaddr, size)
    \/ \E address \in ReadAddrs, max_size \in 0..MaxStr,
          chunk_length \in 1..MaxChunk :
           Call_readCString(address, max_size, chunk_length)
    \/ \E vaddr \in ReadAddrs : Call_vtop(vaddr)
    \/ \E paddr \in ReadAddrs : Call_ptov(paddr)

(***************************************************************************)
(* Promotion to a local buffer: MemoryDumpMemoryMapping,                   *)
(* ProcessMemoryMapping and LocalMemoryMapping.mmap                        *)
(*                                                                         *)
(* The base class of the classes of file.py and the target platform it     *)
(* hands to LocalMemoryMapping.fromAddress are taken to work.              *)
(***************************************************************************)
\* the LocalMemoryMapping that is used on its own
LocalSelf == PyObj(0)

\* MemoryDumpMemoryMapping._mmap: the dump file is read and closed when
\* _base is None, the readers are redirected on every call
MemoryDumpMemoryMapping_mmap_protected(d, fresh) ==
    LET loaded == IF d.base = PyNone
                  THEN [d EXCEPT !.base = PyObj(fresh),
                                 !.memdump = "closed",
                                 !.reads = @ + 1]
                  ELSE d
    IN [md |-> [loaded EXCEPT !.redirected = TRUE], ret |-> loaded.base]

\* MemoryDumpMemoryMapping.isMmaped
MemoryDumpMemoryMapping_isMmaped(d) == d.base # PyNone

\* variant: mmap goes through _mmap() and takes a new local mapping each time
MemoryDumpMemoryMapping_mmap_again(d, fresh) ==
    MemoryDumpMemoryMapping_mmap_protected([d EXCEPT !.base = PyNone], fresh)

\* MemoryDumpMemoryMapping.mmap
MemoryDumpMemoryMapping_mmap(d, fresh) ==
    LET r == IF ~MemoryDumpMemoryMapping_isMmaped(d)
             THEN MemoryDumpMemoryMapping_mmap_protected(d, fresh)
             ELSE [md |-> d, ret |-> PyNone]
    IN [md |-> r.md, ret |-> r.md.base]

\* ProcessMemoryMapping.isMmaped
ProcessMemoryMapping_isMmaped(p) == p.local_mmap # PyNone

\* ProcessMemoryMapping.mmap: self.config.ctypes fails on a mapping whose
\* config is None; otherwise the bytes proc that the process holds are copied
\* into _local_mmap_content, which the new local mapping reads
ProcessMemoryMapping_mmap(p, fresh, proc) ==
    IF ~p.config THEN [pm |-> p, ret |-> PyRaise("AttributeError")]
    ELSE LET q == IF ~ProcessMemoryMapping_isMmaped(p)
                  THEN [p EXCEPT !.reads = @ + 1,
                                 !.content = PyStr(proc),
                                 !.local_mmap = PyObj(fresh),
                                 !.base = "local"]
                  ELSE p
         IN [pm |-> q, ret |-> q.local_mmap]

\* ProcessMemoryMapping.unmmap
ProcessMemoryMapping_unmmap(p) ==
    [p EXCEPT !.base = "process", !.local_mmap = PyNone, !.content = PyNone]

\* variant: readBytes asks the process whatever _base is
ProcessMemoryMapping_readBytes_live(p, proc, start, address, size) ==
    PyStr(readBytes(start, proc, address, size))

\* ProcessMemoryMapping.readBytes of a range of the region: _base.readBytes,
\* _base being the process or the local mapping over _local_mmap_content
ProcessMemoryMapping_readBytes(p, proc, start, address, size) ==
    IF p.base = "process" THEN PyStr(readBytes(start, proc, address, size))
    ELSE PyStr(readBytes(start, p.content.val, address, size))

\* variant: unmmap drops the local mapping
MemoryDumpMemoryMapping_unmmap_reset(d) ==
    [md |-> [d EXCEPT !.base = PyNone], ret |-> PyNone]

\* MemoryDumpMemoryMapping.unmmap
MemoryDumpMemoryMapping_unmmap(d) ==
    [md |-> d, ret |-> PyRaise("NotImplementedError")]

\* whether a call handed out the identity fresh
Created(before, after) == before = PyNone /\ after # PyNone

\* MemoryDumpMemoryMapping.mmap()
Call_md_mmap ==
    LET r == MemoryDumpMemoryMapping_mmap(md, next_obj) IN
    /\ Created(md.base, r.md.base) => next_obj <= MaxPromote
    /\ md' = r.md
    /\ next_obj' = IF Created(md.base, r.md.base) THEN next_obj + 1
                   ELSE next_obj
    /\ bk_call' = [op |-> "md_mmap"]
    /\ bk_ret' = r.ret
    /\ UNCHANGED <<pm, proc_bytes>>
    /\ UNCHANGED <<asVars, bookVars, hwVars, regVars, searchVars, lazyVars, spaceVars>>

\* MemoryDumpMemoryMapping.read_bytes(vaddr, size): through _mmap(), then
\* readBytes of the local mapping
Call_md_read_bytes(vaddr, size) ==
    LET r == MemoryDumpMemoryMapping_mmap_protected(md, next_obj) IN
    /\ Created(md.base, r.md.base) => next_obj <= MaxPromote
    /\ md' = r.md
    /\ next_obj' = IF Created(md.base, r.md.base) THEN next_obj + 1
                   ELSE next_obj
    /\ bk_call' = [op |-> "md_read_bytes", vaddr |-> vaddr, size |-> size]
    /\ bk_ret' \in readBytes1(reg_start, reg_bytes, vaddr, size)
    /\ UNCHANGED <<pm, proc_bytes>>
    /\ UNCHANGED <<asVars, bookVars, hwVars, regVars, searchVars, lazyVars, spaceVars>>

\* MemoryDumpMemoryMapping.unmmap()
Call_md_unmmap ==
    LET r == MemoryDumpMemoryMapping_unmmap(md) IN
    /\ md' = r.md
    /\ bk_call' = [op |-> "md_unmmap"]
    /\ bk_ret' = r.ret
    /\ UNCHANGED <<pm, next_obj, proc_bytes>>
    /\ UNCHANGED <<asVars, bookVars, hwVars, regVars, searchVars, lazyVars, spaceVars>>

\* MemoryMapping.init_config(config) on the ProcessMemoryMapping
Call_pm_init_config ==
    /\ pm' = [pm EXCEPT !.config = TRUE]
    /\ bk_call' = [op |-> "pm_init_config"]
    /\ bk_ret' = PyNone
    /\ UNCHANGED <<md, next_obj, proc_bytes>>
    /\ UNCHANGED <<asVars, bookVars, hwVars, regVars, searchVars, lazyVars, spaceVars>>

\* the backing state of a region: whether it is mmaped, its local buffer
\* and the readers it has redirected
md_backing == <<MemoryDumpMemoryMapping_isMmaped(md), md.base, md.redirected>>
pm_backing == <<pm.local_mmap # PyNone, pm.local_mmap, pm.content, pm.base>>
lm_backing == <<lm_buffered>>

\* mmap() that promotes every region of the address space with it
Call_pm_mmap_all ==
    LET r == ProcessMemoryMapping_mmap(pm, next_obj, proc_bytes) IN
    /\ Created(pm.local_mmap, r.pm.local_mmap) => next_obj <= MaxPromote
    /\ r.pm.reads <= MaxProcReads
    /\ pm' = r.pm
    /\ next_obj' = IF Created(pm.local_mmap, r.pm.local_mmap)
                   THEN next_obj + 1 ELSE next_obj
    /\ bk_call' = [op |-> "pm_mmap"]
    /\ bk_ret' = r.ret
    /\ md' = MemoryDumpMemoryMapping_mmap_protected(md, next_obj + 1).md
    /\ UNCHANGED proc_bytes
    /\ UNCHANGED <<asVars, bookVars, hwVars, regVars, searchVars, lazyVars, spaceVars>>

\* ProcessMemoryMapping.mmap()
Call_pm_mmap ==
    LET r == ProcessMemoryMapping_mmap(pm, next_obj, proc_bytes) IN
    /\ Created(pm.local_mmap, r.pm.local_mmap) => next_obj <= MaxPromote
    /\ r.pm.reads <= MaxProcReads
    /\ pm' = r.pm
    /\ next_obj' = IF Created(pm.local_mmap, r.pm.local_mmap)
                   THEN next_obj + 1 ELSE next_obj
    /\ bk_call' = [op |-> "pm_mmap"]
    /\ bk_ret' = r.ret
    /\ UNCHANGED <<md, proc_bytes>>
    /\ UNCHANGED <<asVars, bookVars, hwVars, regVars, searchVars, lazyVars, spaceVars>>

\* ProcessMemoryMapping.unmmap()
Call_pm_unmmap ==
    /\ pm' = ProcessMemoryMapping_unmmap(pm)
    /\ bk_call' = [op |-> "pm_unmmap"]
    /\ bk_ret' = PyNone
    /\ UNCHANGED <<md, next_obj, proc_bytes>>
    /\ UNCHANGED <<asVars, bookVars, hwVars, regVars, searchVars, lazyVars, spaceVars>>

\* ProcessMemoryMapping.readBytes(address, size), for a range of the region:
\* read by _base, the process or the local mapping
Call_pm_readBytes(address, size) ==
    /\ reg_start <= address /\ address + size <= RegionEnd
    /\ pm.base = "process" => pm.reads < MaxProcReads
    /\ pm' = IF pm.base = "process" THEN [pm EXCEPT !.reads = @ + 1] ELSE pm
    /\ bk_call' = [op |-> "pm_readBytes", vaddr |-> address, size |-> size]
    /\ bk_ret' = ProcessMemoryMapping_readBytes(pm, proc_bytes, reg_start,
                                                address, size)
    /\ UNCHANGED <<md, next_obj, proc_bytes>>
    /\ UNCHANGED <<asVars, bookVars, hwVars, regVars, searchVars, lazyVars, spaceVars>>

\* LocalMemoryMapping.mmap()
Call_lm_mmap ==
    /\ bk_call' = [op |-> "lm_mmap"]
    /\ bk_ret' = LocalSelf
    /\ UNCHANGED <<md, pm, next_obj, proc_bytes>>
    /\ UNCHANGED <<asVars, bookVars, hwVars, regVars, searchVars, lazyVars, spaceVars>>

\* the live process writes byte b at offset i of the region
Process_write(i, b) ==
    /\ proc_bytes[i] # b
    /\ proc_bytes' = [proc_bytes EXCEPT ![i] = b]
    /\ bk_call' = [op |-> "process_write"]
    /\ bk_ret' = PyNone
    /\ UNCHANGED <<md, pm, next_obj>>
    /\ UNCHANGED <<asVars, bookVars, hwVars, regVars, searchVars, lazyVars, spaceVars>>

\* a dump mapping that has not been read and a process mapping without
\* config, for the specifications that do not promote
InitBackingIdle ==
    /\ md = [memdump |-> "open", base |-> PyNone, redirected |-> FALSE,
             reads |-> 0]
    /\ pm = [config |-> FALSE, local_mmap |-> PyNone, base |-> "process",
             content |-> PyNone, reads |-> 0]
    /\ proc_bytes = <<0>>
    /\ next_obj = 1
    /\ bk_call = [op |-> "init"]
    /\ bk_ret = PyNone

\* after construction: the dump mapping with preload False or True, the
\* process mapping with or without the config of its Mappings
InitBackingVars ==
    \E preload \in BOOLEAN :
        LET d == [memdump |-> "open", base |-> PyNone, redirected |-> FALSE,
                  reads |-> 0]
        IN /\ md = IF preload
                   THEN MemoryDumpMemoryMapping_mmap_protected(d, 1).md
                   ELSE d
           /\ next_obj = IF preload THEN 2 ELSE 1
           /\ pm \in [config : BOOLEAN, local_mmap : {PyNone},
                      base : {"process"}, content : {PyNone}, reads : {0}]
           /\ proc_bytes \in [1..Len(reg_bytes) -> Bytes]
           /\ bk_call = [op |-> "init"]
           /\ bk_ret = PyNone

NextBacking ==
    \/ Call_md_mmap
    \/ \E vaddr \in ReadAddrs, size \in ReadSizes :
           Call_md_read_bytes(vaddr, size)
    \/ Call_md_unmmap
    \/ Call_pm_init_config
    \/ Call_pm_mmap
    \/ Call_pm_unmmap
    \/ \E address \in ReadAddrs, size \in ReadSizes :
           Call_pm_readBytes(address, size)
    \/ Call_lm_mmap
    \/ \E i \in 1..Len(reg_bytes), b \in Bytes : Process_write(i, b)

\* the regions of one address space: the dump region, the process region
\* and the local region, each with its own operations
NextFrame ==
    \/ NextBacking
    \/ Call_getByteBuffer
    \/ Call_search(<<0>>)
    \/ Search_iterate

(***************************************************************************)
(* FileBackedMemoryMapping and its LazyMmap                                *)
(***************************************************************************)
\* LazyMmap._get: file(self.memdump_name, 'rb')
LazyMmap_open(handles) == handles + 1

\* variant: _get returns without closing the file
LazyMmap_close_missing(handles) == handles

\* LazyMmap._get: memdump.close()
LazyMmap_close(handles) == handles - 1

\* FileBackedMemoryMapping._mmap: returns self and sets nothing
FileBackedMemoryMapping_mmap_protected(f) == [fb |-> f, ret |-> "self"]

\* MemoryDumpMemoryMapping.isMmaped, inherited
FileBackedMemoryMapping_isMmaped(f) == f.base # PyNone

\* MemoryDumpMemoryMapping.mmap, inherited: it calls the _mmap of
\* FileBackedMemoryMapping and returns self._base
FileBackedMemoryMapping_mmap(f) ==
    LET g == IF ~FileBackedMemoryMapping_isMmaped(f)
             THEN FileBackedMemoryMapping_mmap_protected(f).fb
             ELSE f
    IN [fb |-> g, ret |-> g.base]

\* FileBackedMemoryMapping.mmap()
\* FilenameBackedMemoryMapping.__init__: no file object, _base None
FilenameBackedMemoryMapping_init ==
    [base |-> PyNone, memdump |-> "none", opens |-> 0]

\* FilenameBackedMemoryMapping._mmap: the file is opened into _memdump, then
\* MemoryDumpMemoryMapping._mmap reads and closes it only when _base is None
FilenameBackedMemoryMapping_mmap_protected(f) ==
    LET opened == [f EXCEPT !.memdump = "open", !.opens = @ + 1]
        loaded == IF opened.base = PyNone
                  THEN [opened EXCEPT !.base = PyObj(1), !.memdump = "closed"]
                  ELSE opened
    IN [fn |-> loaded, ret |-> loaded.base]

\* MemoryDumpMemoryMapping.mmap, inherited
FilenameBackedMemoryMapping_mmap(f) ==
    LET g == IF f.base = PyNone
             THEN FilenameBackedMemoryMapping_mmap_protected(f).fn ELSE f
    IN [fn |-> g, ret |-> g.base]

\* FilenameBackedMemoryMapping.mmap()
Call_fn_mmap ==
    LET r == FilenameBackedMemoryMapping_mmap(fn) IN
    /\ r.fn.opens <= MaxOpens
    /\ fn' = r.fn
    /\ fb_call' = [op |-> "fn_mmap"]
    /\ fb_ret' = r.ret
    /\ UNCHANGED <<fb, fb_file>>
    /\ UNCHANGED <<asVars, bookVars, hwVars, regVars, searchVars, backingVars, spaceVars>>

\* MemoryDumpMemoryMapping.read_bytes(vaddr, size), inherited: through
\* _mmap(), then readBytes of the local mapping
Call_fn_read_bytes(vaddr, size) ==
    LET r == FilenameBackedMemoryMapping_mmap_protected(fn) IN
    /\ r.fn.opens <= MaxOpens
    /\ fn' = r.fn
    /\ fb_call' = [op |-> "fn_read_bytes", vaddr |-> vaddr, size |-> size]
    /\ fb_ret' \in readBytes1(reg_start, reg_bytes, vaddr, size)
    /\ UNCHANGED <<fb, fb_file>>
    /\ UNCHANGED <<asVars, bookVars, hwVars, regVars, searchVars, backingVars, spaceVars>>

Call_fb_mmap ==
    LET r == FileBackedMemoryMapping_mmap(fb) IN
    /\ fb' = r.fb
    /\ fb_call' = [op |-> "fb_mmap"]
    /\ fb_ret' = r.ret
    /\ UNCHANGED <<fb_file, fn>>
    /\ UNCHANGED <<asVars, bookVars, hwVars, regVars, searchVars, backingVars,
                   spaceVars>>

\* FileBackedMemoryMapping.isMmaped()
Call_fb_isMmaped ==
    /\ fb_call' = [op |-> "fb_isMmaped"]
    /\ fb_ret' = PyBool(FileBackedMemoryMapping_isMmaped(fb))
    /\ UNCHANGED <<fb, fb_file, fn>>
    /\ UNCHANGED <<asVars, bookVars, hwVars, regVars, searchVars, backingVars,
                   spaceVars>>

\* FileBackedMemoryMapping.read_bytes(vaddr, size): when _vtop accepts vaddr,
\* LazyMmap._get opens the dump file, reads and closes it
Call_fb_read_bytes(vaddr, size) ==
    LET r == FileBackedMemoryMapping_read_bytes(
                 reg_start, Len(reg_bytes), fb_file, vaddr, size)
    IN /\ fb' = IF IsRaise(r) THEN fb
                ELSE [fb EXCEPT
                         !.handles = LazyMmap_close(LazyMmap_open(@))]
       /\ fb_call' = [op |-> "fb_read_bytes", vaddr |-> vaddr, size |-> size]
       /\ fb_ret' = r
       /\ UNCHANGED <<fb_file, fn>>
       /\ UNCHANGED <<asVars, bookVars, hwVars, regVars, searchVars,
                      backingVars, spaceVars>>

\* a FileBackedMemoryMapping that is not used
InitLazyIdle ==
    /\ fb = [base |-> PyNone, handles |-> 0, offset |-> 0]
    /\ fb_file = <<0>>
    /\ fb_call = [op |-> "init"]
    /\ fb_ret = PyNone
    /\ fn = FilenameBackedMemoryMapping_init

\* after construction: LazyMmap has closed the dump it was given and holds
\* its name; in the dump file the bytes of the region follow offset bytes
InitLazyVars ==
    /\ reg_start \in 0..MaxBase
    /\ reg_bytes \in UNION {[1..k -> Bytes] : k \in 1..MaxLen}
    /\ InitRegionCalls
    /\ \E before \in UNION {[1..k -> Bytes] : k \in 0..MaxOffset} :
           /\ fb_file = before \o reg_bytes
           /\ fb = [base |-> PyNone, handles |-> 0, offset |-> Len(before)]
    /\ fb_call = [op |-> "init"]
    /\ fb_ret = PyNone
    /\ fn = FilenameBackedMemoryMapping_init

NextLazy ==
    \/ Call_fb_mmap
    \/ Call_fb_isMmaped
    \/ \E vaddr \in ReadAddrs, size \in ReadSizes :
           Call_fb_read_bytes(vaddr, size)

NextFilename ==
    \/ Call_fn_mmap
    \/ \E vaddr \in ReadAddrs, size \in ReadSizes :
           Call_fn_read_bytes(vaddr, size)

(***************************************************************************)
(* Mappings: get_mapping, get_heaps, init_config                           *)
(***************************************************************************)
\* a Mappings without regions that is not used
InitSpaceIdle ==
    /\ sp_maps = <<>>
    /\ sp = [heaps |-> PyNone, heap_finder |-> PyNone, os_name |-> PyNone,
             cpu_bits |-> PyNone, config |-> PyNone,
             finders |-> 0, queries |-> 0, detections |-> 0]
    /\ sp_call = [op |-> "init"]
    /\ sp_ret = PyNone

\* how often a finder is created, and how often detection runs, in one run
MaxAttempts == 2
\* the regions of one Mappings
MaxSpaceMaps == 2

PyText(s) == [kind |-> "text", val |-> s]
PyConfig(cpu, os_name) == [kind |-> "config", val |-> <<cpu, os_name>>]
IsNone(v) == v.kind = "None"
\* a == b of two Python values
PyEq(a, b) == a.kind = b.kind /\ a.val = b.val

\* the pathname a region is constructed with, and the pathname asked for
PathArgs == {PyNone, PyText("[heap]")}
PathQueries == PathArgs \cup {PyText("None")}
\* the arguments of init_config
OsArgs == {PyNone, PyText("win7"), PyText("macos")}
CpuArgs == {PyNone, PyText("64"), PyText("16")}

\* MemoryMapping.__init__: self.config = None, self.pathname = str(pathname)
MemoryMapping_init(pathname) ==
    [pathname |-> IF IsNone(pathname) THEN PyText("None") ELSE pathname,
     config |-> PyNone]

\* the regions whose pathname says which system the dump comes from
KnownTarget(maps) ==
    \E i \in DOMAIN maps : maps[i].pathname = PyText("[heap]")

\* heapwalker.detect_os(mappings): the system, from the pathnames of the
\* regions; fails when they do not tell
heapwalker_detect_os(maps) ==
    IF KnownTarget(maps) THEN PyText("linux")
    ELSE PyRaise("UnsupportedTarget")

\* heapwalker.detect_cpu(mappings, os_name)
heapwalker_detect_cpu(maps, os_name) ==
    IF KnownTarget(maps) THEN PyText("32")
    ELSE PyRaise("UnsupportedTarget")

\* config.make_config(cpu, os_name)
config_make_config(cpu, os_name) == PyConfig(cpu.val, os_name.val)

\* the regions, in order, that finder.get_heap_mappings selects
RECURSIVE heap_mappings(_, _)
heap_mappings(maps, i) ==
    IF i > Len(maps) THEN <<>>
    ELSE (IF maps[i].pathname = PyText("[heap]") THEN <<i>> ELSE <<>>)
             \o heap_mappings(maps, i + 1)

\* the outcomes of heap discovery on these regions: it succeeds, or, on
\* regions that tell no target, heapwalker.make_heap_walker raises
\* ("no_walker") or finder.get_heap_mappings raises ("no_heaps")
DiscoveryOutcomes(s, maps) ==
    IF KnownTarget(maps) \/ ~IsNone(s.os_name) THEN {"ok"}
    ELSE {"ok", "no_walker", "no_heaps"}

\* variant: get_heaps looks for the heaps on every call
get_heaps_nomemo(s, maps, outcome) ==
    IF outcome = "no_walker"
    THEN [sp |-> s, ret |-> PyRaise("UnsupportedTarget")]
    ELSE LET t == [s EXCEPT !.heap_finder = PyObj(s.finders + 1),
                            !.finders = @ + 1,
                            !.queries = @ + 1]
         IN IF outcome = "no_heaps"
            THEN [sp |-> t, ret |-> PyRaise("UnsupportedTarget")]
            ELSE [sp |-> [t EXCEPT !.heaps = PyList(heap_mappings(maps, 1))],
                  ret |-> PyList(heap_mappings(maps, 1))]

\* Mappings.get_heaps: the finder is assigned before it is queried, the
\* heaps only when the query returns
get_heaps(s, maps, outcome) ==
    IF ~IsNone(s.heaps) THEN [sp |-> s, ret |-> s.heaps]
    ELSE IF outcome = "no_walker"
    THEN [sp |-> s, ret |-> PyRaise("UnsupportedTarget")]
    ELSE LET t == [s EXCEPT !.heap_finder = PyObj(s.finders + 1),
                            !.finders = @ + 1,
                            !.queries = @ + 1]
         IN IF outcome = "no_heaps"
            THEN [sp |-> t, ret |-> PyRaise("UnsupportedTarget")]
            ELSE [sp |-> [t EXCEPT !.heaps = PyList(heap_mappings(maps, 1))],
                  ret |-> PyList(heap_mappings(maps, 1))]

\* Mappings.get_user_allocations(heap): get_heaps() when there is no finder
\* yet, then the allocations of the finder's walker for the heap
get_user_allocations(s, maps, heap, outcome) ==
    LET r == IF IsNone(s.heap_finder) THEN get_heaps(s, maps, outcome)
             ELSE [sp |-> s, ret |-> PyNone]
    IN IF IsRaise(r.ret) THEN r
       ELSE [sp |-> r.sp,
             ret |-> [kind |-> "allocations", val |-> heap]]

RECURSIVE select_pathname(_, _, _)
\* [m for m in self.mappings if m.pathname == pathname], from region i on
select_pathname(maps, pathname, i) ==
    IF i > Len(maps) THEN <<>>
    ELSE (IF PyEq(maps[i].pathname, pathname) THEN <<i>> ELSE <<>>)
             \o select_pathname(maps, pathname, i + 1)

\* Mappings.get_mapping: mmap stays None when there is no region, and
\* len(None) is a TypeError
get_mapping(maps, pathname) ==
    LET mmap == IF Len(maps) >= 1
                THEN PyList(select_pathname(maps, pathname, 1))
                ELSE PyNone
    IN IF IsNone(mmap) THEN PyRaise("TypeError")
       ELSE IF Len(mmap.val) < 1 THEN PyRaise("IndexError")
       ELSE mmap

\* Mappings.get_os_name
get_os_name(s, maps) ==
    IF ~IsNone(s.os_name) THEN [sp |-> s, ret |-> s.os_name]
    ELSE LET d == heapwalker_detect_os(maps)
             t == [s EXCEPT !.detections = @ + 1]
         IN IF IsRaise(d) THEN [sp |-> t, ret |-> d]
            ELSE [sp |-> [t EXCEPT !.os_name = d], ret |-> d]

\* Mappings.get_cpu_bits
get_cpu_bits(s, maps) ==
    IF ~IsNone(s.cpu_bits) THEN [sp |-> s, ret |-> s.cpu_bits]
    ELSE LET d == heapwalker_detect_cpu(maps, s.os_name)
             t == [s EXCEPT !.detections = @ + 1]
         IN IF IsRaise(d) THEN [sp |-> t, ret |-> d]
            ELSE [sp |-> [t EXCEPT !.cpu_bits = d], ret |-> d]

\* Mappings._reset_config
reset_config(s, maps) == [i \in DOMAIN maps |-> [maps[i] EXCEPT !.config = s.config]]

\* the systems and word sizes init_config accepts
SupportedOs == {"linux", "winxp", "win7"}
SupportedCpu == {"32", "64"}

\* variant: init_config stores its arguments before it looks at them
init_config_store_first(s, maps, cpu, os_name) ==
    [sp |-> [s EXCEPT !.os_name = os_name, !.cpu_bits = cpu],
     maps |-> maps,
     ret |-> PyRaise("NotImplementedError")]

\* Mappings.init_config(cpu, os_name)
init_config(s, maps, cpu, os_name) ==
    IF ~IsNone(os_name) /\ os_name.val \notin SupportedOs
    THEN [sp |-> s, maps |-> maps, ret |-> PyRaise("NotImplementedError")]
    ELSE IF ~IsNone(cpu) /\ cpu.val \notin SupportedCpu
    THEN [sp |-> s, maps |-> maps, ret |-> PyRaise("NotImplementedError")]
    ELSE LET s1 == [s EXCEPT !.os_name = os_name, !.cpu_bits = cpu]
             o == get_os_name(s1, maps)
         IN IF IsRaise(o.ret) THEN [sp |-> o.sp, maps |-> maps, ret |-> o.ret]
            ELSE LET c == get_cpu_bits(o.sp, maps) IN
                 IF IsRaise(c.ret)
                 THEN [sp |-> c.sp, maps |-> maps, ret |-> c.ret]
                 ELSE LET s2 == [c.sp EXCEPT
                                    !.config = config_make_config(c.ret, o.ret)]
                      IN [sp |-> s2, maps |-> reset_config(s2, maps),
                          ret |-> PyNone]

\* Mappings.append
Call_space_append(pathname) ==
    /\ Len(sp_maps) < MaxSpaceMaps
    /\ sp_maps' = Append(sp_maps,
                         [MemoryMapping_init(pathname) EXCEPT
                              !.config = IF ~IsNone(sp.config) THEN sp.config
                                         ELSE @])
    /\ sp_call' = [op |-> "append"]
    /\ sp_ret' = PyNone
    /\ UNCHANGED sp
    /\ UNCHANGED <<asVars, bookVars, hwVars, regVars, searchVars, backingVars, lazyVars>>

Call_space_get_mapping(pathname) ==
    /\ sp_call' = [op |-> "get_mapping", pathname |-> pathname]
    /\ sp_ret' = get_mapping(sp_maps, pathname)
    /\ UNCHANGED <<sp, sp_maps>>
    /\ UNCHANGED <<asVars, bookVars, hwVars, regVars, searchVars, backingVars, lazyVars>>

Call_get_heaps(outcome) ==
    LET r == get_heaps(sp, sp_maps, outcome) IN
    /\ outcome \in DiscoveryOutcomes(sp, sp_maps)
    /\ r.sp.finders <= MaxAttempts
    /\ sp' = r.sp
    /\ sp_call' = [op |-> "get_heaps"]
    /\ sp_ret' = r.ret
    /\ UNCHANGED sp_maps
    /\ UNCHANGED <<asVars, bookVars, hwVars, regVars, searchVars, backingVars, lazyVars>>

Call_get_user_allocations(heap, outcome) ==
    LET r == get_user_allocations(sp, sp_maps, heap, outcome) IN
    /\ outcome \in DiscoveryOutcomes(sp, sp_maps)
    /\ r.sp.finders <= MaxAttempts
    /\ sp' = r.sp
    /\ sp_call' = [op |-> "get_user_allocations"]
    /\ sp_ret' = r.ret
    /\ UNCHANGED sp_maps
    /\ UNCHANGED <<asVars, bookVars, hwVars, regVars, searchVars, backingVars, lazyVars>>

Call_init_config(cpu, os_name) ==
    LET r == init_config(sp, sp_maps, cpu, os_name) IN
    /\ r.sp.detections <= MaxAttempts
    /\ sp' = r.sp
    /\ sp_maps' = r.maps
    /\ sp_call' = [op |-> "init_config", cpu |-> cpu, os_name |-> os_name]
    /\ sp_ret' = r.ret
    /\ UNCHANGED <<asVars, bookVars, hwVars, regVars, searchVars, backingVars, lazyVars>>

Call_get_os_name ==
    LET r == get_os_name(sp, sp_maps) IN
    /\ r.sp.detections <= MaxAttempts
    /\ sp' = r.sp
    /\ sp_call' = [op |-> "get_os_name"]
    /\ sp_ret' = r.ret
    /\ UNCHANGED sp_maps
    /\ UNCHANGED <<asVars, bookVars, hwVars, regVars, searchVars, backingVars, lazyVars>>

Call_get_cpu_bits ==
    LET r == get_cpu_bits(sp, sp_maps) IN
    /\ r.sp.detections <= MaxAttempts
    /\ sp' = r.sp
    /\ sp_call' = [op |-> "get_cpu_bits"]
    /\ sp_ret' = r.ret
    /\ UNCHANGED sp_maps
    /\ UNCHANGED <<asVars, bookVars, hwVars, regVars, searchVars, backingVars, lazyVars>>

\* the operations of one Mappings; of its book, keepRef of one object and
\* reset
NextSpace ==
    \/ \E pathname \in PathArgs : Call_space_append(pathname)
    \/ \E pathname \in PathQueries : Call_space_get_mapping(pathname)
    \/ \E outcome \in {"ok", "no_walker", "no_heaps"} : Call_get_heaps(outcome)
    \/ \E heap \in 1..Len(sp_maps), outcome \in {"ok", "no_walker", "no_heaps"} :
           Call_get_user_allocations(heap, outcome)
    \/ \E cpu \in CpuArgs, os_name \in OsArgs : Call_init_config(cpu, os_name)
    \/ Call_get_os_name
    \/ Call_get_cpu_bits
    \/ Call_keepRef(1, "int", 1)
    \/ Call_reset

(***************************************************************************)
(* Specifications                                                          *)
(***************************************************************************)
InitMappings ==
    /\ InitMappingsVars /\ InitBookVars /\ InitWalkerIdle
    /\ InitRegionIdle /\ InitSearchVars
    /\ InitBackingIdle
    /\ InitLazyIdle /\ InitSpaceIdle
SpecMappings == InitMappings /\ [][NextMappings]_vars

InitBook ==
    /\ InitMappingsVars /\ InitBookVars /\ InitWalkerIdle
    /\ InitRegionIdle /\ InitSearchVars
    /\ InitBackingIdle
    /\ InitLazyIdle /\ InitSpaceIdle
SpecBook == InitBook /\ [][NextBook]_vars

InitWalker ==
    /\ InitMappingsVars /\ InitBookVars /\ InitWalkerVars
    /\ InitRegionIdle /\ InitSearchVars
    /\ InitBackingIdle
    /\ InitLazyIdle /\ InitSpaceIdle
SpecWalker == InitWalker /\ [][NextWalker]_vars

InitSearch ==
    /\ InitMappingsVars /\ InitBookVars /\ InitWalkerIdle
    /\ InitRegionVars /\ InitSearchVars
    /\ InitBackingIdle
    /\ InitLazyIdle /\ InitSpaceIdle
SpecSearch == InitSearch /\ [][NextSearch]_vars

InitRegion ==
    /\ InitMappingsVars /\ InitBookVars /\ InitWalkerIdle
    /\ InitReadVars /\ InitSearchVars
    /\ InitBackingIdle
    /\ InitLazyIdle /\ InitSpaceIdle
SpecRegion == InitRegion /\ [][NextRegion]_vars

InitBacking ==
    /\ InitMappingsVars /\ InitBookVars /\ InitWalkerIdle
    /\ InitRegionIdle /\ InitSearchVars
    /\ InitBackingVars
    /\ InitLazyIdle /\ InitSpaceIdle
SpecBacking == InitBacking /\ [][NextBacking]_vars

SpecFrame == InitBacking /\ [][NextFrame]_vars

InitLazy ==
    /\ InitMappingsVars /\ InitBookVars /\ InitWalkerIdle
    /\ InitLazyVars /\ InitSearchVars
    /\ InitBackingIdle /\ InitSpaceIdle
SpecLazy == InitLazy /\ [][NextLazy]_vars

InitFilename ==
    /\ InitMappingsVars /\ InitBookVars /\ InitWalkerIdle
    /\ InitReadVars /\ InitSearchVars
    /\ InitBackingIdle
    /\ InitLazyIdle /\ InitSpaceIdle
SpecFilename == InitFilename /\ [][NextFilename]_vars

InitSpace ==
    /\ InitMappingsVars /\ InitBookVars /\ InitWalkerIdle
    /\ InitRegionIdle /\ InitSearchVars
    /\ InitBackingIdle /\ InitLazyIdle /\ InitSpaceIdle
SpecSpace == InitSpace /\ [][NextSpace]_vars

(***************************************************************************)
(* Properties of Mappings (SpecMappings)                                   *)
(***************************************************************************)
\* the positions of the regions whose half-open range holds address a
Hits(a) == {i \in 1..Len(mappings) :
                a \in mappings[i].start..(mappings[i].end - 1)}

FirstHit(a) == CHOOSE i \in Hits(a) : \A j \in Hits(a) : i <= j

\* C1: region membership is the half-open interval [start, end): "a in
\* region" is true exactly for start <= a < end; start and end-1 are in the
\* region and in the Mappings that own it, end is not in the region.
C1_HalfOpenMembership ==
    /\ \A i \in 1..Len(mappings) :
           LET m == mappings[i] IN
           /\ \A a \in QueryAddresses :
                  MemoryMapping_contains(m, a) <=> a \in m.start..(m.end - 1)
           /\ MemoryMapping_contains(m, m.start)
           /\ MemoryMapping_contains(m, m.end - 1)
           /\ ~MemoryMapping_contains(m, m.end)
           /\ Mappings_contains(mappings, m.start)
           /\ Mappings_contains(mappings, m.end - 1)
    /\ as_call.op = "region_contains" =>
           as_ret = PyBool(as_call.addr \in
                             mappings[as_call.region].start
                                 ..(mappings[as_call.region].end - 1))
    /\ as_call.op = "mappings_contains" =>
           as_ret = PyBool(Hits(as_call.addr) # {})

\* C1 witness: "end in region" was asked of a region and answered False,
\* while its end-1 is contained
C1_Witness ==
    /\ as_call.op = "region_contains"
    /\ as_call.addr = mappings[as_call.region].end
    /\ as_ret = PyFalse
    /\ MemoryMapping_contains(mappings[as_call.region], as_call.addr - 1)

\* C2: get_mapping_for_address(a) returns the first region in insertion
\* order with start <= a < end when one exists, False when none exists, and
\* never raises.
C2_ResolveFirstContaining ==
    as_call.op = "get_mapping_for_address" =>
        /\ ~IsRaise(as_ret)
        /\ Hits(as_call.addr) = {} => as_ret = PyFalse
        /\ Hits(as_call.addr) # {} =>
               /\ IsRegion(as_ret)
               /\ as_ret.val = FirstHit(as_call.addr)
               /\ mappings[as_ret.val].start <= as_call.addr
               /\ as_call.addr < mappings[as_ret.val].end

\* C2 witness: two appended regions hold the address, the first is returned
C2_Witness ==
    /\ as_call.op = "get_mapping_for_address"
    /\ Cardinality(Hits(as_call.addr)) = 2
    /\ as_ret = PyRegion(1)

\* C3 as claimed: address 0 is never valid, through is_valid_address and
\* through is_valid_address_value, whatever the regions and the structType.
C3_ZeroNeverValid ==
    (/\ as_call.op \in {"is_valid_address", "is_valid_address_value"}
     /\ as_call.addr = 0)
        => as_ret = PyFalse

CallKey(c) == <<c.typ, c.addr>>

TypesAt(r, a) == {t \in Types : <<t, a>> \in DOMAIN r}

\* C5: first writer wins: keepRef on an absent key stores its obj; from then
\* on, every step that neither drops that key nor resets the book keeps the
\* entry as it is (a later keepRef is a no-op) and getRef returns it.
C5_FirstWriterWins ==
    [][/\ (book_call'.op = "keepRef" /\ CallKey(book_call') \notin DOMAIN refs)
              => /\ CallKey(book_call') \in DOMAIN refs'
                 /\ refs'[CallKey(book_call')] = book_call'.obj
       /\ \A k \in DOMAIN refs :
              (/\ book_call'.op # "reset"
               /\ ~(book_call'.op = "delRef" /\ CallKey(book_call') = k))
                  => /\ k \in DOMAIN refs'
                     /\ refs'[k] = refs[k]
                     /\ (book_call'.op = "getRef" /\ CallKey(book_call') = k)
                            => book_ret' = PyObj(refs[k])
      ]_vars

\* C5 witness: a keepRef with another obj on a cached key left the first obj
C5_Witness ==
    /\ book_call.op = "keepRef"
    /\ CallKey(book_call) \in DOMAIN refs
    /\ refs[CallKey(book_call)] # book_call.obj

\* C6: the key is (type, address): getRefByAddr(addr) returns exactly one
\* (type, addr, instance) triple for each type cached at addr, and nothing
\* cached at another address.
C6_RefsByAddr ==
    book_call.op = "getRefByAddr" =>
        /\ book_ret.kind = "list"
        /\ Range(book_ret.val) =
               {<<t, book_call.addr, refs[<<t, book_call.addr>>]>> :
                    t \in TypesAt(refs, book_call.addr)}
        /\ Len(book_ret.val) = Cardinality(TypesAt(refs, book_call.addr))

\* C6 witness: two types listed at one address while another address is cached
C6_Witness ==
    /\ book_call.op = "getRefByAddr"
    /\ Len(book_ret.val) = 2
    /\ \E k \in DOMAIN refs : k[2] # book_call.addr

\* C7: delRef(T, addr) removes exactly (T, addr) and changes no other entry;
\* delRef of an absent key and keepRef of a present key do not raise and
\* leave the book as it is.
C7_DelRefFrame ==
    [][/\ book_call'.op = "delRef" =>
              /\ ~IsRaise(book_ret')
              /\ DOMAIN refs' = (DOMAIN refs) \ {CallKey(book_call')}
              /\ \A k \in DOMAIN refs' : refs'[k] = refs[k]
       /\ (book_call'.op = "keepRef" /\ CallKey(book_call') \in DOMAIN refs) =>
              /\ ~IsRaise(book_ret')
              /\ refs' = refs
      ]_vars

\* C7 witness: a delRef whose key is gone while another type stays at the
\* same address
C7_Witness ==
    /\ book_call.op = "delRef"
    /\ CallKey(book_call) \notin DOMAIN refs
    /\ TypesAt(refs, book_call.addr) # {}

\* C8: after reset() the book is empty: hasRef is False and getRef is None
\* for every key, getRefByAddr is empty for every address, and a keepRef
\* that follows stores its instance.
C8_ResetEmpties ==
    [][/\ book_call'.op = "reset" =>
              /\ DOMAIN refs' = {}
              /\ \A t \in Types, a \in BookAddrs :
                     /\ hasRef(refs', t, a) = PyFalse
                     /\ getRef(refs', t, a) = PyNone
              /\ \A a \in BookAddrs, order \in KeyOrders(DOMAIN refs') :
                     getRefByAddr(refs', order, a) = PyList(<<>>)
       /\ (book_call.op = "reset" /\ book_call'.op = "keepRef") =>
              refs'[CallKey(book_call')] = book_call'.obj
       /\ (book_call.op = "reset" /\ book_call'.op = "hasRef") =>
              book_ret' = PyFalse
       /\ (book_call.op = "reset" /\ book_call'.op = "getRef") =>
              book_ret' = PyNone
       /\ (book_call.op = "reset" /\ book_call'.op = "getRefByAddr") =>
              book_ret' = PyList(<<>>)
      ]_vars

\* C8 witness: a reset that dropped entries
C8_Witness ==
    /\ book_call.op = "reset"
    /\ book_call.dropped > 0
    /\ DOMAIN refs = {}

(***************************************************************************)
(* Properties of the heap walker (SpecWalker)                              *)
(***************************************************************************)
\* the (address, size) pairs of the three sources of the heap
SourcePairs ==
    {<<b.addr, b.ReserveSize>> : b \in Range(hw_vblocks)}
        \cup Range(hw_chunks) \cup Range(hw_fth)

\* strictly ascending: sorted, and no pair twice
Ascending(s) == \A i \in 1..(Len(s) - 1) : TupleLess(s[i], s[i + 1])

\* C9 as claimed: on a heap whose sources all resolve, getUserAllocations
\* returns the union of the three sources as (address, size) pairs,
\* ascending by address, no pair twice.
C9_UnionOfSources ==
    (hw_call.op = "getUserAllocations" /\ hw_broken = {}) =>
        /\ hw_ret.kind = "list"
        /\ Range(hw_ret.val) = SourcePairs
        /\ Ascending(hw_ret.val)

\* a pair is listed by the segment chunks and by the front-end chunks
SharedChunk == Range(hw_chunks) \cap Range(hw_fth) # {}

\* C10 as claimed: when the same (address, size) pair comes from two sources
\* getUserAllocations does not fail, it returns the deduplicated ascending
\* sequence, on the first call and on the second.
C10_DuplicatesTolerated ==
    (/\ hw_call.op = "getUserAllocations"
     /\ hw_vblocks = <<>>
     /\ hw_broken = {}
     /\ SharedChunk)
        => /\ hw_ret.kind = "list"
           /\ Range(hw_ret.val) = SourcePairs
           /\ Ascending(hw_ret.val)

\* C11: the allocation set is memoized: once a getUserAllocations call has
\* completed (_allocs is set), every later call returns that same sequence
\* and enumerates none of the three sources, until _initHeap runs again; a
\* call that completes stores what it returns.
C11_Memoized ==
    [][hw_call'.op = "getUserAllocations" =>
           /\ hw_allocs.kind = "list" =>
                  /\ hw_ret' = hw_allocs
                  /\ hw_allocs' = hw_allocs
                  /\ hw_call'.walked = {}
           /\ hw_ret'.kind = "list" => hw_allocs' = hw_ret'
      ]_vars

\* C11 witness: a second call in a row answered from _allocs
C11_Witness ==
    /\ hw_call.op = "getUserAllocations"
    /\ hw_call.n = 2
    /\ hw_call.walked = {}
    /\ hw_ret.kind = "list"
    /\ Len(hw_ret.val) = 2

\* the pairs of the sources that resolve
ResolvedPairs ==
    (IF "vallocs" \in hw_broken THEN {}
     ELSE {<<b.addr, b.ReserveSize>> : b \in Range(hw_vblocks)})
        \cup (IF "chunks" \in hw_broken THEN {} ELSE Range(hw_chunks))
        \cup (IF "fth" \in hw_broken THEN {} ELSE Range(hw_fth))

Occurrences ==
    {a \in reg_start..(RegionEnd - Len(s_needle)) :
         readBytes(reg_start, reg_bytes, a, Len(s_needle)) = s_needle}

\* two occurrences of the needle that share a byte
Overlap(a, b) == a - b < Len(s_needle) /\ b - a < Len(s_needle)

\* the occurrences taken from the left, each the first one that starts at
\* or after the end of the one before
RECURSIVE GreedyFrom(_)
GreedyFrom(a) ==
    LET next == {o \in Occurrences : o >= a} IN
    IF next = {} THEN <<>>
    ELSE LET o == CHOOSE x \in next : \A y \in next : x <= y
         IN <<o>> \o GreedyFrom(o + Len(s_needle))

SearchDone == s_pc = "done" /\ Len(s_needle) > 0

\* C13 as claimed: search yields every address at which the needle occurs,
\* occurrences that overlap a reported one included.
C13_EveryOccurrence ==
    SearchDone => {s_out[i] : i \in DOMAIN s_out} = Occurrences

\* C13 amended: for a non-empty needle search yields occurrences that do not
\* overlap each other, and every occurrence it does not yield overlaps one it
\* yields: the only occurrences left out are overlapping ones.
C13_UpToOverlap ==
    SearchDone =>
        /\ {s_out[i] : i \in DOMAIN s_out} \subseteq Occurrences
        /\ \A i, j \in DOMAIN s_out : i # j => ~Overlap(s_out[i], s_out[j])
        /\ \A o \in Occurrences : \E i \in DOMAIN s_out : Overlap(o, s_out[i])

\* C13 witness: an occurrence that overlaps a yielded one was left out
C13_Witness ==
    /\ SearchDone
    /\ \E o \in Occurrences :
           /\ \A i \in DOMAIN s_out : s_out[i] # o
           /\ \E i \in DOMAIN s_out : Overlap(o, s_out[i])

\* C14: for a non-empty needle search yields strictly increasing addresses,
\* each a true occurrence inside the region; an occurrence that starts right
\* at the end of a yielded one is yielded too, and so is one that straddles
\* the end of a scan window: what is yielded is the occurrences taken from
\* the left without overlap.
C14_IncreasingTrueOccurrences ==
    SearchDone =>
        /\ \A i \in 1..(Len(s_out) - 1) : s_out[i] < s_out[i + 1]
        /\ \A i \in DOMAIN s_out :
               /\ reg_start <= s_out[i]
               /\ s_out[i] <= RegionEnd - Len(s_needle)
               /\ readBytes(reg_start, reg_bytes, s_out[i], Len(s_needle))
                      = s_needle
               /\ (s_out[i] + Len(s_needle)) \in Occurrences =>
                      (i < Len(s_out) /\ s_out[i + 1] = s_out[i] + Len(s_needle))
        /\ s_out = GreedyFrom(reg_start)

\* C14 witness: the first window holds no occurrence, the first address
\* yielded straddles its end, and the occurrences at offsets 5 and
\* 5 + len(needle) are both yielded
C14_Witness ==
    /\ SearchDone
    /\ Len(s_needle) = 2
    /\ Len(reg_bytes) > s_buf_len
    /\ Len(s_out) >= 2
    /\ s_out[1] - reg_start = s_buf_len - 1
    /\ \E i \in DOMAIN s_out : s_out[i] - reg_start = 5
    /\ \E i \in DOMAIN s_out : s_out[i] - reg_start = 5 + Len(s_needle)

(***************************************************************************)
(* Properties of reads, readCString, vtop and ptov (SpecRegion)            *)
(***************************************************************************)
\* the region's bytes from address to its end
BytesFrom(address) == PySlice(reg_bytes, address - reg_start, Len(reg_bytes))

\* the bytes from address up to the first NUL, or to the end of the region
CStringAt(address) ==
    LET b == BytesFrom(address) IN
    IF 0 \in Range(b) THEN PySlice(b, 0, index_nul(b, 0)) ELSE b

\* a NUL ends the string at address before the region does
Terminated(address) == 0 \in Range(BytesFrom(address))

\* C15 as claimed: readCString reports truncated = false whenever a NUL is
\* found before max_size bytes, for any chunk_length, and truncated = true
\* when no NUL occurs within the first max_size bytes.
C15_TruncatedFlag ==
    rg_call.op = "readCString" =>
        LET n == Len(CStringAt(rg_call.address)) IN
        /\ (Terminated(rg_call.address) /\ n < rg_call.max_size) =>
               /\ rg_ret.val.truncated = FALSE
               /\ rg_ret.val.string = CStringAt(rg_call.address)
        /\ n >= rg_call.max_size =>
               /\ rg_ret.val.truncated = TRUE
               /\ Len(rg_ret.val.string) = rg_call.max_size

\* C16: for every chunk_length >= 1 and max_size >= 0 the string returned by
\* readCString is the bytes from address up to the first NUL, cut to at most
\* max_size bytes: no NUL in it, no more than max_size bytes, and the same
\* for every chunk_length.
C16_StringContent ==
    rg_call.op = "readCString" =>
        /\ rg_ret.val.string =
               PySlice(CStringAt(rg_call.address), 0, rg_call.max_size)
        /\ ~(0 \in Range(rg_ret.val.string))
        /\ Len(rg_ret.val.string) <= rg_call.max_size

\* C16 witness: a string of several chunks that is cut at max_size, short of
\* its NUL
C16_Witness ==
    /\ rg_call.op = "readCString"
    /\ Terminated(rg_call.address)
    /\ rg_call.chunk_length < rg_call.max_size
    /\ Len(rg_call.reads) > 1
    /\ Len(CStringAt(rg_call.address)) > rg_call.max_size
    /\ Len(rg_ret.val.string) = rg_call.max_size

IsRead == rg_call.op \in {"readBytes", "read_bytes"}

\* C17 as claimed: a read fails with an error whenever addr is outside
\* [start, end) or addr + size is past end, for the local reader before and
\* after getByteBuffer and for the file reader; what a read returns is the
\* size bytes of the region at addr, never fewer.
C17_ReadsInBounds ==
    IsRead =>
        IF \/ rg_call.vaddr < reg_start
           \/ rg_call.vaddr >= RegionEnd
           \/ rg_call.vaddr + rg_call.size > RegionEnd
        THEN IsRaise(rg_ret)
        ELSE rg_ret = PyStr(readBytes(reg_start, reg_bytes, rg_call.vaddr,
                                      rg_call.size))

\* C18: vtop(addr) returns addr - start, and raises instead of returning a
\* value whenever addr - start is negative or greater than the length of the
\* region.
C18_VtopChecked ==
    rg_call.op = "vtop" =>
        LET d == rg_call.vaddr - reg_start IN
        IF d < 0 \/ d > Len(reg_bytes) THEN IsRaise(rg_ret)
        ELSE rg_ret = PyInt(d)

\* C18 witness: vtop raised for an address past the end of a region that
\* does not start at 0
C18_Witness ==
    /\ rg_call.op = "vtop"
    /\ reg_start > 0
    /\ rg_call.vaddr - reg_start > Len(reg_bytes)
    /\ IsRaise(rg_ret)

\* C19 as claimed: ptov is the inverse of vtop: ptov(vtop(a)) = a for every
\* address a of the region, vtop(ptov(o)) = o for every offset o in
\* [0, length), and ptov raises for an offset outside the region's length.
C19_PtovInverse ==
    /\ (rg_call.op = "vtop" /\ reg_start <= rg_call.vaddr
            /\ rg_call.vaddr < RegionEnd) =>
           /\ ~IsRaise(rg_ret)
           /\ ptov(reg_start, Len(reg_bytes), rg_ret.val) = PyInt(rg_call.vaddr)
    /\ rg_call.op = "ptov" =>
           IF 0 <= rg_call.paddr /\ rg_call.paddr < Len(reg_bytes)
           THEN /\ ~IsRaise(rg_ret)
                /\ vtop(reg_start, Len(reg_bytes), rg_ret.val)
                       = PyInt(rg_call.paddr)
           ELSE (rg_call.paddr < 0 \/ rg_call.paddr > Len(reg_bytes)) =>
                    IsRaise(rg_ret)

(***************************************************************************)
(* Properties of promotion (SpecBacking)                                   *)
(***************************************************************************)
\* C20: mmap() on a region that is already promoted (MemoryDumpMemoryMapping,
\* ProcessMemoryMapping, LocalMemoryMapping) returns the local mapping the
\* region already has, reads neither the dump file nor the process, and
\* changes no state of any backing.
C20_MmapIdempotent ==
    [][/\ (bk_call'.op = "md_mmap" /\ MemoryDumpMemoryMapping_isMmaped(md)) =>
              /\ bk_ret' = md.base
              /\ UNCHANGED <<md, pm, next_obj, lm_buffered>>
       /\ (bk_call'.op = "pm_mmap" /\ ProcessMemoryMapping_isMmaped(pm)) =>
              /\ bk_ret' = pm.local_mmap
              /\ UNCHANGED <<md, pm, next_obj, lm_buffered>>
       /\ bk_call'.op = "lm_mmap" =>
              /\ bk_ret' = LocalSelf
              /\ UNCHANGED <<md, pm, next_obj, lm_buffered>>
      ]_vars

\* C20 witness: both the dump mapping and the process mapping are promoted,
\* each read once, and the last call was a mmap() that returned the process
\* mapping's local mapping after a read of the promoted region
C20_Witness ==
    /\ bk_call.op = "pm_mmap"
    /\ ProcessMemoryMapping_isMmaped(pm)
    /\ MemoryDumpMemoryMapping_isMmaped(md)
    /\ md.reads = 1
    /\ pm.reads = 1
    /\ bk_ret = pm.local_mmap
    /\ next_obj = 3

\* C22: once a MemoryDumpMemoryMapping is promoted it stays promoted, with
\* the same local mapping, under every read, mmap and unmmap; unmmap() does
\* not return it to the unpromoted state and leaves its state unchanged.
C22_PromotionOneWay ==
    [][/\ MemoryDumpMemoryMapping_isMmaped(md) =>
              /\ MemoryDumpMemoryMapping_isMmaped(md')
              /\ md'.base = md.base
       /\ bk_call'.op = "md_unmmap" => md' = md
      ]_vars

\* C22 witness: unmmap() was called on the promoted dump mapping
C22_Witness ==
    /\ bk_call.op = "md_unmmap"
    /\ MemoryDumpMemoryMapping_isMmaped(md)
    /\ md.reads = 1
    /\ IsRaise(bk_ret)

\* C23: with a process that writes its memory between calls, a read of an
\* unpromoted ProcessMemoryMapping (also after unmmap()) returns the bytes
\* the process holds now; after mmap() every read returns the bytes captured
\* by that mmap(), which no write of the process changes.
C23_PromotedReadsCaptured ==
    [][/\ bk_call'.op = "pm_readBytes" =>
              bk_ret' = PyStr(readBytes(reg_start,
                                        IF ProcessMemoryMapping_isMmaped(pm)
                                        THEN pm.content.val ELSE proc_bytes,
                                        bk_call'.vaddr, bk_call'.size))
       /\ (bk_call'.op = "pm_mmap" /\ ~ProcessMemoryMapping_isMmaped(pm)
               /\ ProcessMemoryMapping_isMmaped(pm')) =>
              pm'.content = PyStr(proc_bytes)
       /\ (ProcessMemoryMapping_isMmaped(pm)
               /\ ProcessMemoryMapping_isMmaped(pm')) =>
              pm'.content = pm.content
      ]_vars

\* C23 witness: the process wrote after the promotion and a read of the
\* promoted mapping returned the captured byte, not the current one
C23_Witness ==
    /\ bk_call.op = "pm_readBytes"
    /\ ProcessMemoryMapping_isMmaped(pm)
    /\ bk_call.size > 0
    /\ bk_ret = PyStr(readBytes(reg_start, pm.content.val, bk_call.vaddr,
                                bk_call.size))
    /\ bk_ret # PyStr(readBytes(reg_start, proc_bytes, bk_call.vaddr,
                                bk_call.size))

(***************************************************************************)
(* Properties of FileBackedMemoryMapping (SpecLazy)                        *)
(***************************************************************************)
\* C21 as claimed: mmap() promotes a FileBackedMemoryMapping: after the call
\* isMmaped() is true and mmap() has returned the buffer-backed region.
C21_FileBackedPromotes ==
    /\ fb_call.op = "fb_mmap" =>
           /\ FileBackedMemoryMapping_isMmaped(fb)
           /\ fb_ret # PyNone
    /\ fb_call.op = "fb_isMmaped" => fb_ret = PyBool(fb.base # PyNone)

\* C24: the LazyMmap of a FileBackedMemoryMapping holds no open file between
\* calls: after construction and after every read through it, the number of
\* files it has opened and not closed is zero.
C24_NoOpenHandle == fb.handles = 0

\* C24 witness: a read through the LazyMmap returned bytes of the file
C24_Witness ==
    /\ fb_call.op = "fb_read_bytes"
    /\ fb_ret.kind = "str"
    /\ Len(fb_ret.val) > 0
    /\ fb.handles = 0

\* C25 as claimed: a read of size bytes at vaddr, inside the region, returns
\* the file's bytes at position offset + (vaddr - start), for every offset of
\* the region in the file.
C25_ReadAtRegionOffset ==
    (/\ fb_call.op = "fb_read_bytes"
     /\ reg_start <= fb_call.vaddr
     /\ fb_call.vaddr + fb_call.size <= RegionEnd) =>
        fb_ret = PyStr(SubSeq(fb_file,
                              fb.offset + (fb_call.vaddr - reg_start) + 1,
                              fb.offset + (fb_call.vaddr - reg_start)
                                  + fb_call.size))

(***************************************************************************)
(* Properties of Mappings (SpecSpace)                                      *)
(***************************************************************************)
\* C26 as claimed: get_mapping(pathname) returns all the regions whose
\* stored pathname (str of the one given, 'None' for None) equals the
\* argument, and raises IndexError when there is none, also when the Mappings
\* holds no region.
C26_GetMapping ==
    sp_call.op = "get_mapping" =>
        LET hits == {i \in DOMAIN sp_maps :
                         PyEq(sp_maps[i].pathname, sp_call.pathname)}
        IN IF hits = {} THEN sp_ret = PyRaise("IndexError")
           ELSE /\ sp_ret.kind = "list"
                /\ Range(sp_ret.val) = hits
                /\ Len(sp_ret.val) = Cardinality(hits)

\* C27 as claimed: the heap finder is created and queried at most once, and
\* a get_heaps() call on a Mappings that has been queried returns what the
\* first query gave.
C27_FinderAtMostOnce ==
    /\ sp.finders <= 1
    /\ sp.queries <= 1

\* C27 amended: heap discovery is memoized from the first get_heaps() call
\* that returns: from then on no finder is created or queried and every
\* get_heaps() returns that same sequence (also when it is empty), whatever
\* append, keepRef, reset or other operation happens in between; a call in
\* which the discovery raises stores no heaps, and the next call creates and
\* queries a finder again.
C27_MemoizedOnceReturned ==
    [][/\ ~IsNone(sp.heaps) =>
              /\ sp'.heaps = sp.heaps
              /\ sp'.heap_finder = sp.heap_finder
              /\ sp'.finders = sp.finders
              /\ sp'.queries = sp.queries
              /\ sp_call'.op = "get_heaps" => sp_ret' = sp.heaps
       /\ (IsNone(sp.heaps) /\ sp_call'.op = "get_heaps") =>
              /\ sp'.queries = sp'.finders
              /\ IF IsRaise(sp_ret') THEN IsNone(sp'.heaps)
                 ELSE /\ sp'.heaps = sp_ret'
                      /\ sp'.finders = sp.finders + 1
      ]_vars

\* C27 witness: get_heaps() answered with the memoized sequence although a
\* heap region was appended after the discovery and a reference is kept
C27_Witness ==
    /\ sp_call.op = "get_heaps"
    /\ sp.finders = 1
    /\ sp_ret = sp.heaps
    /\ \E i \in DOMAIN sp_maps :
           /\ sp_maps[i].pathname = PyText("[heap]")
           /\ i \notin Range(sp.heaps.val)
    /\ DOMAIN refs # {}

\* C28: init_config(cpu, os_name) given an os_name that is not one of linux,
\* winxp, win7, or a cpu that is not '32' or '64' (None, the default, is no
\* value given and asks for detection) raises NotImplementedError and leaves
\* the os name, the cpu bits, the config and every region's config as they
\* were; given supported values for both it stores them without detection,
\* and get_os_name and get_cpu_bits return a stored value without detection
\* until the next init_config.
C28_InitConfigChecked ==
    [][/\ sp_call'.op = "init_config" =>
              LET os_name == sp_call'.os_name
                  cpu == sp_call'.cpu
                  bad_os == ~IsNone(os_name) /\ os_name.val \notin SupportedOs
                  bad_cpu == ~IsNone(cpu) /\ cpu.val \notin SupportedCpu
              IN /\ (bad_os \/ bad_cpu) =>
                        /\ sp_ret' = PyRaise("NotImplementedError")
                        /\ sp' = sp
                        /\ sp_maps' = sp_maps
                 /\ (~IsNone(os_name) /\ ~IsNone(cpu) /\ ~bad_os /\ ~bad_cpu) =>
                        /\ sp'.os_name = os_name
                        /\ sp'.cpu_bits = cpu
                        /\ sp'.detections = sp.detections
       /\ (sp_call'.op = "get_os_name" /\ ~IsNone(sp.os_name)) =>
              /\ sp_ret' = sp.os_name
              /\ sp'.detections = sp.detections
       /\ (sp_call'.op = "get_cpu_bits" /\ ~IsNone(sp.cpu_bits)) =>
              /\ sp_ret' = sp.cpu_bits
              /\ sp'.detections = sp.detections
       /\ sp_call'.op # "init_config" =>
              /\ ~IsNone(sp.os_name) => sp'.os_name = sp.os_name
              /\ ~IsNone(sp.cpu_bits) => sp'.cpu_bits = sp.cpu_bits
      ]_vars

\* C28 witness: an unsupported os_name was refused on a Mappings that holds
\* a config, set on its region, from supported values given before
C28_Witness ==
    /\ sp_call.op = "init_config"
    /\ sp_call.os_name = PyText("macos")
    /\ sp_ret = PyRaise("NotImplementedError")
    /\ sp.os_name = PyText("win7")
    /\ sp.cpu_bits = PyText("64")
    /\ sp.detections = 0
    /\ sp.config = PyConfig("64", "win7")
    /\ Len(sp_maps) > 0
    /\ \A i \in DOMAIN sp_maps : sp_maps[i].config = sp.config

\* C29 as claimed: on a heap whose sources all resolve and whose chunk
\* sources list no pair twice, each block of the virtual-allocation list gives
\* exactly one (address, reserved size) pair in what getUserAllocations
\* returns.
C29_OnePairPerBlock ==
    (/\ hw_call.op = "getUserAllocations"
     /\ hw_broken = {}
     /\ Len(hw_chunks \o hw_fth) = Cardinality(Range(hw_chunks \o hw_fth)))
        =>
        /\ hw_ret.kind = "list"
        /\ \A i \in DOMAIN hw_vblocks :
               Cardinality({j \in DOMAIN hw_ret.val :
                                hw_ret.val[j] = <<hw_vblocks[i].addr,
                                                  hw_vblocks[i].ReserveSize>>})
                   = 1

\* C30 as claimed: every run of the body of the loop of search that goes on
\* to the next run moves the scan position forward by at least one byte,
\* for every needle, the empty one included.
C30_EveryIterationAdvances ==
    [][(s_pc = "loop" /\ s_pc' = "loop") => s_covered' >= s_covered + 1]_vars

(***************************************************************************)
(* Further properties of Mappings (SpecMappings)                           *)
(***************************************************************************)
\* C35: in every reachable state of a Mappings and for every integer address
\* a, (a in mappings) is true exactly when get_mapping_for_address(a) returns
\* a region, and the region returned contains a; the calls made return these
\* values.
C35_MembershipIsLookup ==
    /\ \A a \in QueryAddresses :
           LET r == get_mapping_for_address(mappings, a) IN
           /\ Mappings_contains(mappings, a) <=> IsRegion(r)
           /\ IsRegion(r) => MemoryMapping_contains(mappings[r.val], a)
    /\ as_call.op = "mappings_contains" =>
           as_ret = PyBool(IsRegion(get_mapping_for_address(mappings,
                                                            as_call.addr)))

\* C35 witness: an address that the first region does not hold and the
\* second does was found in the Mappings
C35_Witness ==
    /\ as_call.op = "mappings_contains"
    /\ as_ret = PyTrue
    /\ get_mapping_for_address(mappings, as_call.addr) = PyRegion(2)

(***************************************************************************)
(* Further properties of reading a region (SpecRegion)                     *)
(***************************************************************************)
\* C36 as claimed: vtop(addr), and the _vtop of LocalMemoryMapping and of
\* FileBackedMemoryMapping, return an offset only for an address that the
\* region contains: they raise for every addr outside start <= addr < end,
\* addr == end included.
C36_TranslationAgreesWithContains ==
    LET inside(a) == MemoryMapping_contains(
                         MemoryMapping(reg_start, RegionEnd), a)
    IN /\ rg_call.op = "vtop" =>
              (~IsRaise(rg_ret) => inside(rg_call.vaddr))
       /\ \A a \in ReadAddrs :
              /\ ~IsRaise(LocalMemoryMapping_vtop(reg_start, Len(reg_bytes),
                                                  a)) => inside(a)
              /\ ~IsRaise(FileBackedMemoryMapping_vtop(reg_start,
                                                       Len(reg_bytes), a))
                     => inside(a)

(***************************************************************************)
(* Further properties of search (SpecSearch)                               *)
(***************************************************************************)
\* C37: throughout search, covered + remaining == end and start <= covered;
\* every readBytes(covered, requested) that the loop issues (its body runs
\* when remaining >= len(needle)) has requested >= len(needle) and
\* covered + requested <= end, so no read leaves [start, end).
C37_ScanStaysInside ==
    s_pc # "idle" =>
        /\ s_covered + s_remaining = RegionEnd
        /\ reg_start <= s_covered
        /\ (s_pc = "loop" /\ s_remaining >= Len(s_needle)) =>
               LET requested == search_requested(s_remaining, s_buf_len) IN
               /\ requested >= Len(s_needle)
               /\ s_covered + requested <= RegionEnd

\* C37 witness: past the first window, the loop is about to read a last
\* window that is shorter than the others and still holds the needle
C37_Witness ==
    /\ s_pc = "loop"
    /\ s_covered > reg_start
    /\ Len(s_needle) > 0
    /\ s_remaining >= Len(s_needle)
    /\ s_remaining < s_buf_len
    /\ Len(s_out) > 0

\* C38 as claimed: for chunk_length >= 1 readCString makes at least one and
\* at most ceil(max_size / chunk_length) chunk reads, asks for at most
\* max_size + chunk_length bytes in all, and every chunk it asks for lies
\* inside the region, none reaching past the region's end.
C38_ChunkReadsBounded ==
    rg_call.op = "readCString" =>
        LET n == Len(rg_call.reads)
            ceil == (rg_call.max_size + rg_call.chunk_length - 1)
                        \div rg_call.chunk_length
        IN /\ n >= 1
           /\ n <= (IF ceil < 1 THEN 1 ELSE ceil)
           /\ n * rg_call.chunk_length
                  <= rg_call.max_size + rg_call.chunk_length
           /\ \A i \in 1..n :
                  /\ reg_start <= rg_call.reads[i][1]
                  /\ rg_call.reads[i][1] + rg_call.reads[i][2] <= RegionEnd

(***************************************************************************)
(* Further properties of the heap walker (SpecWalker)                      *)
(***************************************************************************)
\* C34 as claimed: when loadMembers returns false _initHeap fails with an
\* error, and every later getUserAllocations call on that walker fails too:
\* it walks no source of the unresolved header and returns no allocations.
C34_FailedWalkerOnlyReports ==
    ~hw_loads =>
        /\ hw_call.op = "_initHeap" => IsRaise(hw_ret)
        /\ hw_call.op = "getUserAllocations" =>
               /\ IsRaise(hw_ret)
               /\ hw_call.walked = {}

(***************************************************************************)
(* Further properties of the reference book (SpecBook)                     *)
(***************************************************************************)
\* C32: a book that holds more entries than its soft capacity never fails
\* for that: keepRef of a new key stores it and keeps every other entry,
\* keepRef never raises, getRef returns the stored instance, and the only
\* effect is the warning that getRef logs when it reads an entry of a book
\* holding more entries than the capacity.
C32_SoftCapacity ==
    [][/\ book_call'.op = "keepRef" =>
              /\ book_ret' = PyNone
              /\ CallKey(book_call') \in DOMAIN refs'
              /\ CallKey(book_call') \notin DOMAIN refs =>
                     refs'[CallKey(book_call')] = book_call'.obj
              /\ \A k \in DOMAIN refs :
                     k \in DOMAIN refs' /\ refs'[k] = refs[k]
       /\ book_call'.op = "getRef" =>
              /\ refs' = refs
              /\ CallKey(book_call') \in DOMAIN refs =>
                     book_ret' = PyObj(refs[CallKey(book_call')])
              /\ book_call'.warned <=>
                     /\ CallKey(book_call') \in DOMAIN refs
                     /\ Cardinality(DOMAIN refs) > SoftCapacity
      ]_vars

\* C32 witness: getRef warned and returned the instance stored under a key
\* that was added when the book was already over its capacity
C32_Witness ==
    /\ book_call.op = "getRef"
    /\ book_call.warned
    /\ Cardinality(DOMAIN refs) >= SoftCapacity + 2
    /\ book_ret.kind = "obj"

(***************************************************************************)
(* Further properties of Mappings (SpecSpace)                              *)
(***************************************************************************)
\* C33 as claimed: reset() discards the heap walkers of the Mappings: after
\* it the memoized list of heaps and the heap finder, which holds the
\* walkers, are gone, so that the next get_user_allocations looks for the
\* heaps again.
C33_ResetDiscardsWalkers ==
    [][(book_call'.op = "reset" /\ bookVars' # bookVars) =>
           /\ IsNone(sp'.heaps)
           /\ IsNone(sp'.heap_finder)
      ]_vars

(***************************************************************************)
(* Properties of FilenameBackedMemoryMapping (SpecFilename)                *)
(***************************************************************************)
\* C39 as claimed: over any sequence of read and mmap calls a
\* FilenameBackedMemoryMapping opens its dump file at most once, and after
\* each call no file that the region opened is still open.
C39_OpensOnceAndCloses ==
    /\ fn.opens <= 1
    /\ fb_call.op \in {"fn_mmap", "fn_read_bytes"} => fn.memdump # "open"

(***************************************************************************)
(* Frame of the operations on one region (SpecFrame)                       *)
(***************************************************************************)
\* C31: promotion never crosses regions: an operation on one region (a
\* read, a search, mmap, getByteBuffer) leaves the backing state (isMmaped,
\* local buffer, redirected readers) of every other region unchanged.
C31_PromotionStaysInRegion ==
    [][/\ (backingVars' # backingVars /\ bk_call'.op \in
              {"md_mmap", "md_read_bytes"})
          => pm_backing' = pm_backing /\ lm_backing' = lm_backing
       /\ (backingVars' # backingVars /\ bk_call'.op \in
              {"pm_mmap", "pm_readBytes"})
          => md_backing' = md_backing /\ lm_backing' = lm_backing
       /\ (backingVars' # backingVars /\ bk_call'.op = "lm_mmap")
          => md_backing' = md_backing /\ pm_backing' = pm_backing
             /\ lm_backing' = lm_backing
       /\ (regVars' # regVars \/ searchVars' # searchVars)
          => md_backing' = md_backing /\ pm_backing' = pm_backing]_vars

\* mmap() has promoted the process region while the dump region and the
\* local region are as constructed
C31_Witness ==
    /\ bk_call.op = "pm_mmap"
    /\ pm.local_mmap # PyNone
    /\ ~MemoryDumpMemoryMapping_isMmaped(md)
    /\ ~md.redirected
    /\ ~lm_buffered

====
